---- MODULE Spec2Model ----
(***************************************************************************)
(* Model of the Loadout Optimizer editor of DIM:                           *)
(*   - lbStateInit / lbStateReducer  (loadout-builder-reducer.ts)          *)
(*   - useInitialLoadout             (initial-loadout.ts)                  *)
(*   - LoadoutBuilderContainer       (the page that calls both)            *)
(*                                                                         *)
(* Encoding of JavaScript values.  A slot that may hold `undefined` is a   *)
(* set with at most one element: {} is undefined, {v} is the value v.      *)
(* A dictionary-like object (pinnedItems, excludedItems, parameters) is a  *)
(* function from its own keys to such slots, so a key that is present      *)
(* with the value undefined differs from a key that is not there, as in    *)
(* JavaScript.  Objects of fixed shape are records.                        *)
(***************************************************************************)
EXTENDS Integers, Sequences, FiniteSets, TLC

VARIABLES
  page,           \* what LoadoutBuilderContainer shows: "loading", "maintenance",
                  \* "editor" (LoadoutBuilder), or "error" once its render has thrown
  state,          \* the LoadoutBuilderState held by useReducer, NoEditor while
                  \* LoadoutBuilder is not mounted
  prev,           \* the state the latest action was dispatched on
  action,         \* the latest step: the LoadoutBuilderAction dispatched, NoAction
                  \* for a render, or the call of warnMissingClass
  notifications,  \* what the latest step passed to showNotification, in order
  location,       \* useLocation(): pathname, navigation state and query string
  env,            \* what the selectors and useLoadStores return: saved preferences,
                  \* manifest and stores loaded or not, maintenance
  resolved,       \* the [loadout, storeId] returned by useInitialLoadout, the
                  \* loadout being Thrown(message) where the hook threw
  navigated,      \* the navigate(pathname, {replace: true}) calls of useInitialLoadout
  decoded         \* the payloads useInitialLoadout handed to parseLoadoutFromURLParam

vars ==
  <<page, state, prev, action, notifications, location, env, resolved, navigated, decoded>>

\* An action is a record tagged by its type (LoadoutBuilderAction); the action
\* useReducer has seen before the first dispatch: none
NoAction == [type |-> "@@INIT"]

\* LoadoutBuilder, and with it useLbState, is not mounted
NoEditor == [mounted |-> FALSE]

----------------------------------------------------------------------------
(* JavaScript values *)

Undefined == {}

Some(v) == {v}

Val(slot) == CHOOSE v \in slot : TRUE

\* obj[key]: reading a key the object does not have gives undefined
Get(obj, key) == IF key \in DOMAIN obj THEN obj[key] ELSE Undefined

\* { ...obj, [key]: slot }
Put(obj, key, slot) ==
  [k \in DOMAIN obj \cup {key} |-> IF k = key THEN slot ELSE obj[k]]

\* { ...a, ...b }
Spread(a, b) ==
  [k \in DOMAIN a \cup DOMAIN b |-> IF k \in DOMAIN b THEN b[k] ELSE a[k]]

\* {} and emptyObject()
EmptyObject == [k \in {} |-> Undefined]

\* a ?? b
Coalesce(slot, default) == IF slot = Undefined THEN default ELSE Val(slot)

\* A JSON number found where the code expects a list: the one-entry function
\* on {0}, which no list (a function on 1..n) is
JSONNumber(n) == [k \in {0} |-> n]

\* for (const x of value) does not throw
Iterable(value) == 0 \notin DOMAIN value

\* if (slot) on a slot holding a list or a number: undefined and 0 are falsy,
\* every list, the empty one too, is truthy
TruthyJSON(slot) == slot # Undefined /\ (Iterable(Val(slot)) \/ Val(slot)[0] # 0)

\* array.filter(keep), keep being a set of indices here
RECURSIVE FilterIdx(_, _, _)
FilterIdx(list, keep, i) ==
  IF i > Len(list) THEN <<>>
  ELSE (IF i \in keep THEN <<list[i]>> ELSE <<>>) \o FilterIdx(list, keep, i + 1)

\* strings.join(', ')
RECURSIVE Join(_)
Join(strings) ==
  IF Len(strings) = 0 THEN ""
  ELSE IF Len(strings) = 1 THEN strings[1]
  ELSE strings[1] \o ", " \o Join(Tail(strings))

\* all lists over S of length at most n
SeqsUpTo(S, n) == UNION {[1..m -> S] : m \in 0..n}

----------------------------------------------------------------------------
(* DestinyClass *)

Titan == 0
Hunter == 1
Warlock == 2
Unknown == 3

\* defs.Class: the class definitions of the manifest, which has none for
\* Unknown
ClassDefs ==
  <<[classType |-> Titan, name |-> "Titan"], [classType |-> Hunter, name |-> "Hunter"],
    [classType |-> Warlock, name |-> "Warlock"]>>

----------------------------------------------------------------------------
(* Inventory: items live in buckets (equipment slots) *)

Helmet == 11
Gauntlets == 12

Item(id, bucketHash, power) ==
  [id |-> id, power |-> power, bucket |-> [hash |-> bucketHash]]

\* Two helmets; the first one also as a second object with the same id (the
\* inventory rebuilds item objects on refresh).  One pair of gauntlets.
Items ==
  { Item("h1", Helmet, 1), Item("h1", Helmet, 2), Item("h2", Helmet, 1),
    Item("g1", Gauntlets, 1) }

BucketHashes == {i.bucket.hash : i \in Items}

Store(id, classType, current) == [id |-> id, classType |-> classType, current |-> current]

Stores == << Store("titan", Titan, FALSE), Store("hunter", Hunter, TRUE) >>

StoreIds == {Stores[i].id : i \in DOMAIN Stores}

----------------------------------------------------------------------------
(* Manifest definitions: defs.InventoryItem *)

armor2PlugCategoryHashesByName == [general |-> 21, helmet |-> 22]

\* an exoticArmorHash that is a choice and no item ("exoticArmorHash > 0")
NoExoticChoice == -1

LockableBucketHashes == {Helmet, Gauntlets}

KineticWeapons == 13

\* a DestinyInventoryItemDefinition, reduced to the fields the code reads
ItemDef(hash, name, plug, uniqueLabel, bucketTypeHash, classType) ==
  [hash |-> hash, classType |-> classType, plug |-> plug,
   displayProperties |-> [name |-> name],
   equippingBlock |-> Some([uniqueLabel |-> uniqueLabel]),
   inventory |-> Some([bucketTypeHash |-> bucketTypeHash])]

PlugDef(hash, name, plugCategoryHash) ==
  ItemDef(hash, name, Some([plugCategoryHash |-> plugCategoryHash]), Undefined, 0, Unknown)

GeneralMod == PlugDef(101, "Resilience Mod", armor2PlugCategoryHashesByName.general)

HelmetMod == PlugDef(102, "Ashes to Assets", armor2PlugCategoryHashesByName.helmet)

\* a second general mod, so that the order of a list of general mods shows
MobilityMod == PlugDef(103, "Mobility Mod", armor2PlugCategoryHashesByName.general)

ModDefs == {GeneralMod, HelmetMod}

ExoticHelmet == ItemDef(201, "Helm of Saint-14", Undefined, Some("exotic_armor"), Helmet, Titan)

ExoticGauntlets == ItemDef(202, "Shards of Galanor", Undefined, Some("exotic_armor"), Gauntlets, Hunter)

ExoticSword == ItemDef(203, "Black Talon", Undefined, Some("exotic_weapon"), KineticWeapons, Unknown)

LegendaryHelmet == ItemDef(204, "Solstice Helm", Undefined, Undefined, Helmet, Warlock)

ArmorDefs == {ExoticHelmet, ExoticGauntlets, ExoticSword, LegendaryHelmet}

InventoryItemDefs == ModDefs \cup {MobilityMod} \cup ArmorDefs

\* a hash the manifest does not know (a mod removed from the game)
RetiredModHash == 109

\* defs.InventoryItem.get(hash)
InventoryItemGet(hash) ==
  IF \E d \in InventoryItemDefs : d.hash = hash
  THEN Some(CHOOSE d \in InventoryItemDefs : d.hash = hash)
  ELSE Undefined

\* defs.InventoryItem.get(mod)?.plug?.plugCategoryHash === armor2PlugCategoryHashesByName.general
IsGeneralModHash(mod) ==
  LET def == InventoryItemGet(mod)
  IN /\ def # Undefined
     /\ Val(def).plug # Undefined
     /\ Val(Val(def).plug).plugCategoryHash = armor2PlugCategoryHashesByName.general

\* newMods.filter(general).length
GeneralModsCount(mods) == Cardinality({i \in 1..Len(mods) : IsGeneralModHash(mods[i])})

GeneralModsCap == 5

----------------------------------------------------------------------------
(* Stat order and stat filters derived from LoadoutParameters (loadout-params) *)

armorStats == <<"Mobility", "Resilience", "Recovery">>

ArmorStatSet == {armorStats[i] : i \in DOMAIN armorStats}

\* params.statConstraints as the list the helpers below walk; the spec does
\* not say what they make of a value that is no list: taken as no constraints
StatConstraintsOf(params) ==
  LET constraints == Coalesce(Get(params, "statConstraints"), <<>>)
  IN IF 0 \in DOMAIN constraints THEN <<>> ELSE constraints

statOrderFromLoadoutParameters(params) ==
  LET constraints == StatConstraintsOf(params)
      constrained == [i \in DOMAIN constraints |-> constraints[i].statHash]
      listed == {constrained[i] : i \in DOMAIN constrained}
  IN constrained \o FilterIdx(armorStats, {i \in DOMAIN armorStats : armorStats[i] \notin listed}, 1)

statFiltersFromLoadoutParamaters(params) ==
  LET constraints == StatConstraintsOf(params)
      IndexOf(stat) == {i \in DOMAIN constraints : constraints[i].statHash = stat}
  IN [stat \in ArmorStatSet |->
        IF IndexOf(stat) = {}
        THEN [ignored |-> TRUE, min |-> 0, max |-> 10]
        ELSE LET c == constraints[CHOOSE i \in IndexOf(stat) : TRUE]
             IN [ignored |-> FALSE,
                 min |-> Coalesce(Get(c, "minTier"), 0),
                 max |-> Coalesce(Get(c, "maxTier"), 10)]]

\* getCurrentStore(stores)
getCurrentStore(stores) ==
  stores[CHOOSE i \in DOMAIN stores : stores[i].current]

----------------------------------------------------------------------------
(* warnMissingClass and lbStateInit *)

\* warnMissingClass(classType, defs): the error notification it shows, or the
\* TypeError of find(...)!.displayProperties when no class definition has
\* the classType
warnMissingClass(classType) ==
  LET found == {i \in DOMAIN ClassDefs : ClassDefs[i].classType = classType}
      missingClassName == ClassDefs[CHOOSE i \in found : \A j \in found : i <= j].name
  IN IF found = {}
     THEN [ok |-> FALSE,
           message |-> "Cannot read properties of undefined (reading 'displayProperties')"]
     ELSE [ok |-> TRUE,
           value |-> <<[type |-> "error",
                        title |-> [key |-> "LoadoutBuilder.MissingClass",
                                   className |-> missingClassName],
                        body |-> "LoadoutBuilder.MissingClassDescription"]>>]

\* lbStateInit(args): the editor state, or the ReferenceError thrown when the
\* loadout's parameters have no truthy statConstraints: the other branch of
\* the conditional calls statOrderFromSavedPreferences, a name the module
\* neither defines nor imports (statOrderFromCustomStats, the next operand of
\* ??, is not reached)
lbStateInit(args) ==
  LET classType == args.initialLoadout.classType
      matching == {i \in DOMAIN args.stores : args.stores[i].classType = classType}
      matchingClass ==
        IF classType # Unknown /\ matching # {}
        THEN Some(args.stores[CHOOSE i \in matching : \A j \in matching : i <= j])
        ELSE Undefined
      selectedStoreId == Coalesce(matchingClass, getCurrentStore(args.stores)).id
      loadoutParameters == Coalesce(args.initialLoadout.parameters, EmptyObject)
  IN IF TruthyJSON(Get(loadoutParameters, "statConstraints"))
     THEN [ok |-> TRUE,
           value |-> [loadout |-> args.initialLoadout,
                      statOrder |-> statOrderFromLoadoutParameters(loadoutParameters),
                      pinnedItems |-> EmptyObject,
                      excludedItems |-> EmptyObject,
                      statFilters |-> statFiltersFromLoadoutParamaters(loadoutParameters),
                      selectedStoreId |-> Some(selectedStoreId),
                      modPicker |-> [open |-> FALSE, plugCategoryHashWhitelist |-> Undefined],
                      compareSet |-> Undefined]]
     ELSE [ok |-> FALSE, message |-> "statOrderFromSavedPreferences is not defined"]

----------------------------------------------------------------------------
(* lbStateReducer, one operator per case of the switch *)

\* mergeLoadoutParameters(state, params): spreading an undefined parameters
\* object contributes no keys
mergeLoadoutParameters(s, params) ==
  [s EXCEPT !.loadout =
     [@ EXCEPT !.parameters = Some(Spread(Coalesce(@, EmptyObject), params))]]

\* changeCharacter resetting the pins only
changeCharacterKeepingExcluded(s, a) ==
  [s EXCEPT !.selectedStoreId = Some(a.storeId), !.pinnedItems = EmptyObject]

changeCharacter(s, a) ==
  [s EXCEPT !.selectedStoreId = Some(a.storeId),
            !.pinnedItems = EmptyObject,
            !.excludedItems = EmptyObject]

statFiltersChanged(s, a) == [s EXCEPT !.statFilters = a.statFilters]

\* pinItem without "Locking an item clears excluded items in this bucket"
pinItemKeepingExcluded(s, a) ==
  [s EXCEPT !.pinnedItems = Put(@, a.item.bucket.hash, Some(a.item))]

pinItem(s, a) ==
  LET item == a.item
      bucketHash == item.bucket.hash
  IN [s EXCEPT !.pinnedItems = Put(@, bucketHash, Some(item)),
               !.excludedItems = Put(@, bucketHash, Undefined)]

\* _.keyBy(items, (i) => i.bucket.hash): a later item replaces an earlier one
\* of the same bucket
keyByBucket(items) ==
  [k \in {items[i].bucket.hash : i \in DOMAIN items} |->
     LET last == CHOOSE i \in DOMAIN items :
                   /\ items[i].bucket.hash = k
                   /\ \A j \in DOMAIN items : items[j].bucket.hash = k => j <= i
     IN Some(items[last])]

setPinnedItems(s, a) ==
  [s EXCEPT !.pinnedItems = keyByBucket(a.items),
            !.excludedItems = EmptyObject]

\* unpinItem dropping the pins of every bucket
unpinItemEverywhere(s, a) == [s EXCEPT !.pinnedItems = EmptyObject]

unpinItem(s, a) ==
  LET bucketHash == a.item.bucket.hash
  IN [s EXCEPT !.pinnedItems = Put(@, bucketHash, Undefined)]

\* the membership test comparing item objects instead of item ids
AlreadyExcludedByObject(s, item) ==
  LET excluded == Get(s.excludedItems, item.bucket.hash)
  IN /\ excluded # Undefined
     /\ \E i \in DOMAIN Val(excluded) : Val(excluded)[i] = item

\* state.excludedItems[bucketHash]?.some((i) => i.id === item.id)
AlreadyExcluded(s, item) ==
  LET excluded == Get(s.excludedItems, item.bucket.hash)
  IN /\ excluded # Undefined
     /\ \E i \in DOMAIN Val(excluded) : Val(excluded)[i].id = item.id

\* excludeItem without "Also unpin items in this bucket"
excludeItemKeepingPin(s, a) ==
  LET item == a.item
      bucketHash == item.bucket.hash
  IN IF AlreadyExcluded(s, item)
     THEN s
     ELSE [s EXCEPT !.excludedItems =
             Put(@, bucketHash, Some(Append(Coalesce(Get(s.excludedItems, bucketHash), <<>>), item)))]

\* excludeItem putting the new item in front of the existing ones
excludeItemPrepending(s, a) ==
  LET item == a.item
      bucketHash == item.bucket.hash
  IN IF AlreadyExcluded(s, item)
     THEN s
     ELSE [s EXCEPT !.pinnedItems = Put(@, bucketHash, Undefined),
                    !.excludedItems =
                      Put(@, bucketHash, Some(<<item>> \o Coalesce(Get(s.excludedItems, bucketHash), <<>>)))]

excludeItem(s, a) ==
  LET item == a.item
      bucketHash == item.bucket.hash
  IN IF AlreadyExcluded(s, item)
     THEN s
     ELSE LET existingExcluded == Coalesce(Get(s.excludedItems, bucketHash), <<>>)
          IN [s EXCEPT !.pinnedItems = Put(@, bucketHash, Undefined),
                       !.excludedItems = Put(@, bucketHash, Some(Append(existingExcluded, item)))]

\* unexcludeItem storing the filtered list even when it is empty
unexcludeItemKeepingEmptyList(s, a) ==
  LET item == a.item
      bucketHash == item.bucket.hash
      existing == Coalesce(Get(s.excludedItems, bucketHash), <<>>)
  IN [s EXCEPT !.excludedItems =
        Put(@, bucketHash,
            Some(FilterIdx(existing, {i \in DOMAIN existing : existing[i].id # item.id}, 1)))]

unexcludeItem(s, a) ==
  LET item == a.item
      bucketHash == item.bucket.hash
      existing == Coalesce(Get(s.excludedItems, bucketHash), <<>>)
      newExcluded == FilterIdx(existing, {i \in DOMAIN existing : existing[i].id # item.id}, 1)
  IN [s EXCEPT !.excludedItems =
        Put(@, bucketHash, IF Len(newExcluded) > 0 THEN Some(newExcluded) ELSE Undefined)]

\* action.lockedMods.map((m) => m.hash)
Hashes(mods) == [i \in DOMAIN mods |-> mods[i].hash]

lockedModsChanged(s, a) ==
  mergeLoadoutParameters(s, [mods |-> Some(Hashes(a.lockedMods))])

sortOrderChanged(s, a) == [s EXCEPT !.statOrder = a.sortOrder]

assumeArmorMasterworkChanged(s, a) ==
  mergeLoadoutParameters(s, [assumeArmorMasterwork |-> a.assumeArmorMasterwork])

lockArmorEnergyTypeChanged(s, a) ==
  mergeLoadoutParameters(s, [lockArmorEnergyType |-> a.lockArmorEnergyType])

\* state.loadout.parameters?.mods ?? []
CurrentMods(s) ==
  IF s.loadout.parameters = Undefined THEN <<>>
  ELSE Coalesce(Get(Val(s.loadout.parameters), "mods"), <<>>)

\* the cap test letting a sixth mod through
UnderGeneralModsCapInclusive(count) == count <= GeneralModsCap

\* currentGeneralModsCount < 5
UnderGeneralModsCap(count) == count < GeneralModsCap

\* The loop of addGeneralMods over action.mods from position i on: newMods is
\* the list built so far, count is currentGeneralModsCount, failures the
\* names of the mods refused so far.
RECURSIVE AddGeneralModsLoop(_, _, _, _, _)
AddGeneralModsLoop(mods, i, newMods, count, failures) ==
  IF i > Len(mods) THEN [newMods |-> newMods, failures |-> failures]
  ELSE IF UnderGeneralModsCap(count)
       THEN AddGeneralModsLoop(mods, i + 1, Append(newMods, mods[i].hash), count + 1, failures)
       ELSE AddGeneralModsLoop(mods, i + 1, newMods, count,
                               Append(failures, mods[i].displayProperties.name))

AddGeneralModsResult(s, a) ==
  LET newMods == CurrentMods(s)
  IN AddGeneralModsLoop(a.mods, 1, newMods, GeneralModsCount(newMods), <<>>)

\* addGeneralMods adding nothing at all when one of the mods is refused
addGeneralModsAllOrNothing(s, a) ==
  LET result == AddGeneralModsResult(s, a)
  IN mergeLoadoutParameters(s,
       [mods |-> Some(IF Len(result.failures) > 0 THEN CurrentMods(s) ELSE result.newMods)])

addGeneralMods(s, a) ==
  mergeLoadoutParameters(s, [mods |-> Some(AddGeneralModsResult(s, a).newMods)])

\* the showNotification call of addGeneralMods
addGeneralModsNotifications(s, a) ==
  LET failures == AddGeneralModsResult(s, a).failures
  IN IF Len(failures) > 0
     THEN << [type |-> "warning",
              title |-> "LoadoutBuilder.UnableToAddAllMods",
              body |-> [key |-> "LoadoutBuilder.UnableToAddAllModsBody",
                        mods |-> Join(failures)]] >>
     ELSE <<>>

\* removeLockedMod splicing without the test indexToRemove >= 0:
\* splice(-1, 1) removes the last element
removeLockedModUnguarded(s, a) ==
  LET newMods == CurrentMods(s)
      found == {i \in DOMAIN newMods : newMods[i] = a.mod.hash}
      indexToRemove ==
        IF found # {} THEN CHOOSE i \in found : \A j \in found : i <= j ELSE Len(newMods)
  IN mergeLoadoutParameters(s,
       [mods |-> Some(FilterIdx(newMods, DOMAIN newMods \ {indexToRemove}, 1))])

\* removeLockedMod removing every occurrence of the mod
removeLockedModEverywhere(s, a) ==
  LET newMods == CurrentMods(s)
  IN mergeLoadoutParameters(s,
       [mods |-> Some(FilterIdx(newMods, {i \in DOMAIN newMods : newMods[i] # a.mod.hash}, 1))])

removeLockedMod(s, a) ==
  LET newMods == CurrentMods(s)
      found == {i \in DOMAIN newMods : newMods[i] = a.mod.hash}
      spliced ==
        IF found # {}
        THEN LET indexToRemove == CHOOSE i \in found : \A j \in found : i <= j
             IN FilterIdx(newMods, DOMAIN newMods \ {indexToRemove}, 1)
        ELSE newMods
  IN mergeLoadoutParameters(s, [mods |-> Some(spliced)])

updateSubclass(s, a) == s

\* removeSubclass taking the items out of the loadout
removeSubclassClearingItems(s, a) == [s EXCEPT !.loadout.items = <<>>]

removeSubclass(s, a) == s

updateSubclassSocketOverrides(s, a) == s

removeSingleSubclassSocketOverride(s, a) == s

lockExotic(s, a) ==
  mergeLoadoutParameters(s, [exoticArmorHash |-> Some(a.lockedExoticHash)])

removeLockedExotic(s, a) ==
  mergeLoadoutParameters(s, [exoticArmorHash |-> Undefined])

openModPicker(s, a) ==
  [s EXCEPT !.modPicker = [open |-> TRUE,
                           plugCategoryHashWhitelist |-> a.plugCategoryHashWhitelist]]

\* closeModPicker clearing the open flag only
closeModPickerKeepingWhitelist(s, a) == [s EXCEPT !.modPicker.open = FALSE]

closeModPicker(s, a) ==
  [s EXCEPT !.modPicker = [open |-> FALSE, plugCategoryHashWhitelist |-> Undefined]]

openCompareDrawer(s, a) == [s EXCEPT !.compareSet = Some(a.set)]

closeCompareDrawer(s, a) == [s EXCEPT !.compareSet = Undefined]

lbStateReducer(s, a) ==
  CASE a.type = "changeCharacter" -> changeCharacter(s, a)
    [] a.type = "statFiltersChanged" -> statFiltersChanged(s, a)
    [] a.type = "pinItem" -> pinItem(s, a)
    [] a.type = "setPinnedItems" -> setPinnedItems(s, a)
    [] a.type = "unpinItem" -> unpinItem(s, a)
    [] a.type = "excludeItem" -> excludeItem(s, a)
    [] a.type = "unexcludeItem" -> unexcludeItem(s, a)
    [] a.type = "lockedModsChanged" -> lockedModsChanged(s, a)
    [] a.type = "sortOrderChanged" -> sortOrderChanged(s, a)
    [] a.type = "assumeArmorMasterworkChanged" -> assumeArmorMasterworkChanged(s, a)
    [] a.type = "lockArmorEnergyTypeChanged" -> lockArmorEnergyTypeChanged(s, a)
    [] a.type = "addGeneralMods" -> addGeneralMods(s, a)
    [] a.type = "removeLockedMod" -> removeLockedMod(s, a)
    [] a.type = "updateSubclass" -> updateSubclass(s, a)
    [] a.type = "removeSubclass" -> removeSubclass(s, a)
    [] a.type = "updateSubclassSocketOverrides" -> updateSubclassSocketOverrides(s, a)
    [] a.type = "removeSingleSubclassSocketOverride" -> removeSingleSubclassSocketOverride(s, a)
    [] a.type = "lockExotic" -> lockExotic(s, a)
    [] a.type = "removeLockedExotic" -> removeLockedExotic(s, a)
    [] a.type = "openModPicker" -> openModPicker(s, a)
    [] a.type = "closeModPicker" -> closeModPicker(s, a)
    [] a.type = "openCompareDrawer" -> openCompareDrawer(s, a)
    [] a.type = "closeCompareDrawer" -> closeCompareDrawer(s, a)

\* lbStateReducer(defs) where the manifest is not loaded: the case
\* addGeneralMods reads defs.InventoryItem for each mod the loadout has, and
\* throws at the first one
ReducerThrows(defsLoaded, s, a) ==
  a.type = "addGeneralMods" /\ ~defsLoaded /\ CurrentMods(s) # <<>>

\* what the reducer hands to showNotification while reducing a
reducerNotifications(s, a) ==
  IF a.type = "addGeneralMods" THEN addGeneralModsNotifications(s, a) ELSE <<>>

----------------------------------------------------------------------------
(* useInitialLoadout *)

Loadout(id, name, classType, items, parameters, notes) ==
  [id |-> id, name |-> name, classType |-> classType, items |-> items,
   parameters |-> parameters, notes |-> notes]

\* a value with the fields of a Loadout, a class and a list of items
IsConfiguration(loadout) ==
  /\ DOMAIN loadout = {"id", "name", "classType", "items", "parameters", "notes"}
  /\ loadout.classType \in Int
  /\ DOMAIN loadout.items = 1..Len(loadout.items)

\* newLoadout(name, items, classType)
newLoadout(name, items, classType) ==
  Loadout("new", name, classType, items, Undefined, Undefined)

LoadoutItem(id, hash, equip) == [id |-> id, hash |-> hash, amount |-> 1, equip |-> equip]

\* the loadout a well-formed share link decodes to
SharedLoadout ==
  Loadout("shared", "Shared build", Warlock, <<>>,
          Some([mods |-> Some(<<GeneralMod.hash>>)]), Some("from a link"))

ShareLinkGood == "eyJzaGFyZWQiOnRydWV9"
ShareLinkBad == "not-a-loadout"

\* parseLoadoutFromURLParam(loadoutJSON): a Loadout, or a thrown error
parseLoadoutFromURLParam(loadoutJSON) ==
  IF loadoutJSON = ShareLinkGood
  THEN [ok |-> TRUE, value |-> SharedLoadout]
  ELSE [ok |-> FALSE, message |-> "Unexpected token o in JSON at position 1"]

MaxQueryLength == 2048

StatConstraint(statHash, minTier, maxTier) ==
  [statHash |-> statHash, minTier |-> minTier, maxTier |-> maxTier]

SubclassJSONGood == "{\"hash\":301,\"socketOverrides\":{}}"
ParametersJSONExotic == "{\"exoticArmorHash\":202}"
ParametersJSONNoSuchExotic == "{\"exoticArmorHash\":109}"
ParametersJSONMods == "{\"mods\":[101],\"assumeArmorMasterwork\":3,\"lockArmorEnergyType\":2}"
JSONBad == "{oops"

\* text repeated n times
RECURSIVE Repeat(_, _)
Repeat(text, n) ==
  IF n = 0 THEN ""
  ELSE LET half == Repeat(text, n \div 2)
       IN half \o half \o (IF n % 2 = 1 THEN text ELSE "")

\* a search query of n characters
QueryOfLength(n) == Repeat("x", n)

\* parameters with a search query of n characters and stat tiers
ParametersJSONQuery(n) ==
  "{\"query\":\"" \o QueryOfLength(n) \o "\",\"statConstraints\":"
    \o "[{\"statHash\":\"Recovery\",\"minTier\":2,\"maxTier\":10},{\"statHash\":\"Mobility\"}]}"

\* what ParametersJSONQuery(n) parses to
ParametersWithQuery(n) ==
  [query |-> Some(QueryOfLength(n)),
   statConstraints |-> Some(<<StatConstraint("Recovery", Some(2), Some(10)),
                              [statHash |-> "Mobility"]>>)]

ParametersJSONNotAList ==
  "{\"statConstraints\":5,\"assumeArmorMasterwork\":3,\"lockArmorEnergyType\":2}"

ParametersJSONZero == "{\"statConstraints\":0}"

\* a search query over the length limit next to statConstraints that are no list
ParametersJSONLongQueryNotAList ==
  "{\"query\":\"" \o QueryOfLength(MaxQueryLength + 1) \o "\",\"statConstraints\":5}"

\* JSON.parse(text) on the texts above; any other text is a syntax error, with
\* the message V8 gives for JSONBad (the wording depends on the engine's
\* version; the code only passes it on to the notification)
JSONParse(text) ==
  CASE text = SubclassJSONGood ->
         [ok |-> TRUE, value |-> [hash |-> 301, socketOverrides |-> EmptyObject]]
    [] text = ParametersJSONExotic ->
         [ok |-> TRUE, value |-> [exoticArmorHash |-> Some(ExoticGauntlets.hash)]]
    [] text = ParametersJSONNoSuchExotic ->
         [ok |-> TRUE, value |-> [exoticArmorHash |-> Some(RetiredModHash)]]
    [] text = ParametersJSONMods ->
         [ok |-> TRUE, value |-> [mods |-> Some(<<GeneralMod.hash>>),
                                  assumeArmorMasterwork |-> Some(3),
                                  lockArmorEnergyType |-> Some(2)]]
    [] text = ParametersJSONQuery(MaxQueryLength) ->
         [ok |-> TRUE, value |-> ParametersWithQuery(MaxQueryLength)]
    [] text = ParametersJSONQuery(MaxQueryLength + 1) ->
         [ok |-> TRUE, value |-> ParametersWithQuery(MaxQueryLength + 1)]
    [] text = ParametersJSONNotAList ->
         [ok |-> TRUE, value |-> [statConstraints |-> Some(JSONNumber(5)),
                                  assumeArmorMasterwork |-> Some(3),
                                  lockArmorEnergyType |-> Some(2)]]
    [] text = ParametersJSONZero ->
         [ok |-> TRUE, value |-> [statConstraints |-> Some(JSONNumber(0))]]
    [] text = ParametersJSONLongQueryNotAList ->
         [ok |-> TRUE, value |-> [query |-> Some(QueryOfLength(MaxQueryLength + 1)),
                                  statConstraints |-> Some(JSONNumber(5))]]
    [] OTHER -> [ok |-> FALSE,
                 message |-> "Expected property name or '}' in JSON at position 1"]

NaN == -1

\* parseInt(text)
parseInt(text) ==
  CASE text = "0" -> 0
    [] text = "1" -> 1
    [] text = "2" -> 2
    [] text = "3" -> 3
    [] text = "7" -> 7
    [] OTHER -> NaN

\* a truthy string: neither null/undefined nor ''
Truthy(slot) == slot # Undefined /\ Val(slot) # ""

defaultLoadoutParameters ==
  [statConstraints |-> Some([i \in DOMAIN armorStats |->
                               StatConstraint(armorStats[i], Undefined, Undefined)]),
   mods |-> Some(<<>>),
   assumeArmorMasterwork |-> Some(1),
   lockArmorEnergyType |-> Some(1)]

\* delete draft[key]
Delete(obj, key) == [k \in DOMAIN obj \ {key} |-> obj[k]]

\* draft.query.length > 2048
QueryTooLong(query) == Len(query) > MaxQueryLength

\* sanitizeLoadoutParameters(loadoutParameters): the sanitized parameters, or
\* the TypeError thrown by the loop over statConstraints that are no list
sanitizeLoadoutParameters(loadoutParameters) ==
  LET query == Get(loadoutParameters, "query")
      q == IF Truthy(query) /\ QueryTooLong(Val(query))
           THEN Put(loadoutParameters, "query", Some(""))
           ELSE loadoutParameters
      statConstraints == Get(q, "statConstraints")
      c == IF TruthyJSON(statConstraints) /\ Iterable(Val(statConstraints))
           THEN Put(q, "statConstraints",
                    Some([i \in DOMAIN Val(statConstraints) |->
                            Delete(Delete(Val(statConstraints)[i], "maxTier"), "minTier")]))
           ELSE q
  IN IF TruthyJSON(statConstraints) /\ ~Iterable(Val(statConstraints))
     THEN [ok |-> FALSE, message |-> "draft.statConstraints is not iterable"]
     ELSE [ok |-> TRUE,
           value |-> Delete(Delete(c, "assumeArmorMasterwork"), "lockArmorEnergyType")]

\* the showNotification call of every catch block
BadLoadoutShare(message) ==
  [type |-> "error",
   title |-> "Loadouts.BadLoadoutShare",
   body |-> [key |-> "Loadouts.BadLoadoutShareBody", error |-> message]]

\* !preloadedLoadout.parameters?.exoticArmorHash
LacksExoticArmorHash(loadout) ==
  \/ loadout.parameters = Undefined
  \/ Get(Val(loadout.parameters), "exoticArmorHash") = Undefined
  \/ Val(Get(Val(loadout.parameters), "exoticArmorHash")) = 0

\* IsLockableExotic without the check of the bucket
IsExotic(def) ==
  /\ def # Undefined
  /\ Val(def).equippingBlock # Undefined
  /\ Truthy(Val(Val(def).equippingBlock).uniqueLabel)

\* the predicate of the find over the definitions of the equipped items
IsLockableExotic(def) ==
  /\ def # Undefined
  /\ Val(def).equippingBlock # Undefined
  /\ Truthy(Val(Val(def).equippingBlock).uniqueLabel)
  /\ (IF Val(def).inventory = Undefined THEN 0
      ELSE Val(Val(def).inventory).bucketTypeHash) \in LockableBucketHashes

\* what stands for the loadout when useInitialLoadout throws
Thrown(message) == [thrown |-> message]

\* the hook returned nothing: it threw
IsThrown(loadout) == "thrown" \in DOMAIN loadout

\* preloadedLoadout.items is undefined
LacksItems(loadout) == "items" \notin DOMAIN loadout

\* the loadout of the navigation state given a parameters object in any case
PreloadedLoadoutWithParameters(loadout, defsLoaded) ==
  LET equipped == FilterIdx(loadout.items, {i \in DOMAIN loadout.items : loadout.items[i].equip}, 1)
      found == {i \in DOMAIN equipped : IsLockableExotic(InventoryItemGet(equipped[i].hash))}
      parameters == Coalesce(loadout.parameters, EmptyObject)
  IN IF LacksExoticArmorHash(loadout) /\ defsLoaded /\ LacksItems(loadout)
     THEN Thrown("Cannot read properties of undefined (reading 'filter')")
     ELSE IF LacksExoticArmorHash(loadout) /\ defsLoaded /\ found # {}
     THEN LET first == CHOOSE i \in found : \A j \in found : i <= j
              equippedExotic == Val(InventoryItemGet(equipped[first].hash))
          IN [loadout EXCEPT !.parameters =
                Some(Put(parameters, "exoticArmorHash", Some(equippedExotic.hash)))]
     ELSE [loadout EXCEPT !.parameters = Some(parameters)]

\* Tier 1: the loadout of the navigation state, with its equipped exotic
\* locked.  preloadedLoadout.items.filter(...) is outside any try: on a
\* loadout without items it throws, and so does the hook.
PreloadedLoadout(loadout, defsLoaded) ==
  LET equipped == FilterIdx(loadout.items, {i \in DOMAIN loadout.items : loadout.items[i].equip}, 1)
      found == {i \in DOMAIN equipped : IsLockableExotic(InventoryItemGet(equipped[i].hash))}
  IN IF LacksExoticArmorHash(loadout) /\ defsLoaded /\ LacksItems(loadout)
     THEN Thrown("Cannot read properties of undefined (reading 'filter')")
     ELSE IF LacksExoticArmorHash(loadout) /\ defsLoaded /\ found # {}
     THEN LET first == CHOOSE i \in found : \A j \in found : i <= j
              equippedExotic == Val(InventoryItemGet(equipped[first].hash))
          IN [loadout EXCEPT !.parameters =
                Some(Put(Coalesce(@, EmptyObject), "exoticArmorHash", Some(equippedExotic.hash)))]
     ELSE loadout

\* urlClassTypeString ? parseInt(urlClassTypeString) : DestinyClass.Unknown
UrlClassType(search) ==
  LET urlClassTypeString == Get(search, "class")
  IN IF Truthy(urlClassTypeString) THEN parseInt(Val(urlClassTypeString)) ELSE Unknown

\* The subclass of the query parameter s and the notifications of its catch
\* block
UrlSubclass(search) ==
  LET subclassJSON == Get(search, "s")
      parsed == JSONParse(Val(subclassJSON))
  IN IF ~Truthy(subclassJSON) THEN [subclass |-> Undefined, notifications |-> <<>>]
     ELSE IF parsed.ok THEN [subclass |-> Some(parsed.value), notifications |-> <<>>]
     ELSE [subclass |-> Undefined, notifications |-> <<BadLoadoutShare(parsed.message)>>]

\* The loadout parameters of tier 3 and the notifications of the catch block:
\* the saved ones, unless the query parameter p is there; the parsed value is
\* assigned before it is sanitized, and stays when sanitizing throws
UrlLoadoutParameters(search, settings) ==
  LET urlLoadoutParametersJSON == Get(search, "p")
      parsed == JSONParse(Val(urlLoadoutParametersJSON))
      sanitized == sanitizeLoadoutParameters(Spread(defaultLoadoutParameters, parsed.value))
  IN IF ~Truthy(urlLoadoutParametersJSON)
     THEN [loadoutParameters |-> settings.savedLoadoutParameters, notifications |-> <<>>]
     ELSE IF ~parsed.ok
     THEN [loadoutParameters |-> settings.savedLoadoutParameters,
           notifications |-> <<BadLoadoutShare(parsed.message)>>]
     ELSE IF ~sanitized.ok
     THEN [loadoutParameters |-> Some(parsed.value),
           notifications |-> <<BadLoadoutShare(sanitized.message)>>]
     ELSE [loadoutParameters |-> Some(sanitized.value), notifications |-> <<>>]

\* ClassTypeWithExotic taking the class of the exotic over a class given in
\* the URL
ClassTypeWithExoticOverriding(classType, loadoutParameters, defsLoaded) ==
  LET exoticArmorHash == IF loadoutParameters = Undefined THEN Undefined
                         ELSE Get(Val(loadoutParameters), "exoticArmorHash")
  IN IF /\ defsLoaded
        /\ exoticArmorHash # Undefined
        /\ Val(exoticArmorHash) > 0
     THEN LET def == InventoryItemGet(Val(exoticArmorHash))
          IN IF def = Undefined THEN Unknown ELSE Val(def).classType
     ELSE classType

\* "If the URL params specified an exotic without a class, set the class from
\* the exotic"
ClassTypeWithExotic(classType, loadoutParameters, defsLoaded) ==
  LET exoticArmorHash == IF loadoutParameters = Undefined THEN Undefined
                         ELSE Get(Val(loadoutParameters), "exoticArmorHash")
  IN IF /\ defsLoaded
        /\ classType = Unknown
        /\ exoticArmorHash # Undefined
        /\ Val(exoticArmorHash) > 0
     THEN LET def == InventoryItemGet(Val(exoticArmorHash))
          IN IF def = Undefined THEN Unknown ELSE Val(def).classType
     ELSE classType

\* Tier 3: a loadout from the discrete query parameters class, p, s and n
ConstructedLoadout(search, settings, defsLoaded, randomId) ==
  LET urlNotes == Get(search, "n")
      s == UrlSubclass(search)
      p == UrlLoadoutParameters(search, settings)
      classType == ClassTypeWithExotic(UrlClassType(search), p.loadoutParameters, defsLoaded)
      constructedLoadout == newLoadout("", <<>>, classType)
      items == IF s.subclass # Undefined
               THEN Append(constructedLoadout.items,
                           Spread(Val(s.subclass), [id |-> randomId, amount |-> 1, equip |-> TRUE]))
               ELSE constructedLoadout.items
  IN [loadout |-> [constructedLoadout EXCEPT
                     !.parameters = p.loadoutParameters,
                     !.notes = IF Truthy(urlNotes) THEN urlNotes ELSE Undefined,
                     !.items = items],
      notifications |-> s.notifications \o p.notifications]

\* Tier 1 of useInitialLoadout: return [preloadedLoadout, storeId]
ResolvedFromState(loc, defsLoaded) ==
  [loadout |-> PreloadedLoadout(Val(Val(loc.state).loadout), defsLoaded),
   storeId |-> Val(loc.state).storeId,
   notifications |-> <<>>, navigated |-> <<>>, decoded |-> <<>>]

\* the catch block of the share link without its showNotification call
ResolvedFromSearchSilent(loc, settings, defsLoaded, randomId) ==
  LET loadoutJSON == Get(loc.search, "l")
      parsed == parseLoadoutFromURLParam(Val(loadoutJSON))
      constructed == ConstructedLoadout(loc.search, settings, defsLoaded, randomId)
  IN IF Truthy(loadoutJSON) /\ parsed.ok
     THEN [loadout |-> parsed.value, storeId |-> Undefined,
           notifications |-> <<>>, navigated |-> <<>>, decoded |-> <<Val(loadoutJSON)>>]
     ELSE [loadout |-> constructed.loadout, storeId |-> Undefined,
           notifications |-> constructed.notifications,
           navigated |-> IF Truthy(loadoutJSON)
                         THEN <<[to |-> loc.pathname, replace |-> TRUE]>> ELSE <<>>,
           decoded |-> IF Truthy(loadoutJSON) THEN <<Val(loadoutJSON)>> ELSE <<>>]

\* ResolvedFromSearch letting the class parameter override the class of a
\* decoded share link
ResolvedFromSearchMerging(loc, settings, defsLoaded, randomId) ==
  LET loadoutJSON == Get(loc.search, "l")
      parsed == parseLoadoutFromURLParam(Val(loadoutJSON))
      constructed == ConstructedLoadout(loc.search, settings, defsLoaded, randomId)
  IN IF Truthy(loadoutJSON) /\ parsed.ok
     THEN [loadout |-> [parsed.value EXCEPT !.classType = UrlClassType(loc.search)],
           storeId |-> Undefined,
           notifications |-> <<>>, navigated |-> <<>>, decoded |-> <<Val(loadoutJSON)>>]
     ELSE IF Truthy(loadoutJSON)
     THEN [loadout |-> constructed.loadout, storeId |-> Undefined,
           notifications |-> <<BadLoadoutShare(parsed.message)>> \o constructed.notifications,
           navigated |-> <<[to |-> loc.pathname, replace |-> TRUE]>>,
           decoded |-> <<Val(loadoutJSON)>>]
     ELSE [loadout |-> constructed.loadout, storeId |-> Undefined,
           notifications |-> constructed.notifications,
           navigated |-> <<>>, decoded |-> <<>>]

\* Tiers 2 and 3 of useInitialLoadout: the share link 'l', then the discrete
\* query parameters
ResolvedFromSearch(loc, settings, defsLoaded, randomId) ==
  LET loadoutJSON == Get(loc.search, "l")
      parsed == parseLoadoutFromURLParam(Val(loadoutJSON))
      constructed == ConstructedLoadout(loc.search, settings, defsLoaded, randomId)
  IN IF Truthy(loadoutJSON) /\ parsed.ok
     THEN [loadout |-> parsed.value, storeId |-> Undefined,
           notifications |-> <<>>, navigated |-> <<>>, decoded |-> <<Val(loadoutJSON)>>]
     ELSE IF Truthy(loadoutJSON)
     THEN [loadout |-> constructed.loadout, storeId |-> Undefined,
           notifications |-> <<BadLoadoutShare(parsed.message)>> \o constructed.notifications,
           navigated |-> <<[to |-> loc.pathname, replace |-> TRUE]>>,
           decoded |-> <<Val(loadoutJSON)>>]
     ELSE [loadout |-> constructed.loadout, storeId |-> Undefined,
           notifications |-> constructed.notifications,
           navigated |-> <<>>, decoded |-> <<>>]

\* if (state) { ... if (preloadedLoadout) ...
HasPreloadedLoadout(loc) == loc.state # Undefined /\ Val(loc.state).loadout # Undefined

\* useInitialLoadout looking at the share link before the navigation state
useInitialLoadoutLinkFirst(loc, settings, defsLoaded, randomId) ==
  IF HasPreloadedLoadout(loc) /\ ~Truthy(Get(loc.search, "l"))
  THEN ResolvedFromState(loc, defsLoaded)
  ELSE ResolvedFromSearch(loc, settings, defsLoaded, randomId)

\* useInitialLoadout(): the returned [loadout, storeId] and the calls made to
\* showNotification, navigate and parseLoadoutFromURLParam on the way
useInitialLoadout(loc, settings, defsLoaded, randomId) ==
  IF HasPreloadedLoadout(loc)
  THEN ResolvedFromState(loc, defsLoaded)
  ELSE ResolvedFromSearch(loc, settings, defsLoaded, randomId)

----------------------------------------------------------------------------
(* The page: at every render LoadoutBuilderContainer resolves the initial   *)
(* loadout; once the stores are loaded it renders LoadoutBuilder, where     *)
(* useLbState builds the editor state from the loadout of that render.      *)
(* Every step after that dispatches one action to the reducer, or renders   *)
(* the container again.                                                     *)

Location(navState, search) == [pathname |-> "/optimizer", state |-> navState, search |-> search]

PlainLocation == Location(Undefined, EmptyObject)

Env(savedLoadoutParameters, defsLoaded, storesLoaded, disabledDueToMaintenance) ==
  [savedLoadoutParameters |-> savedLoadoutParameters,
   customStatsByClass |-> EmptyObject,
   loStatOrderByClass |-> EmptyObject,
   defsLoaded |-> defsLoaded,
   storesLoaded |-> storesLoaded,
   disabledDueToMaintenance |-> disabledDueToMaintenance]

\* the defaults saved, manifest and stores loaded, no maintenance
DefaultEnv == Env(Some(defaultLoadoutParameters), TRUE, TRUE, FALSE)

\* Math.floor(Math.random() * Number.MAX_SAFE_INTEGER).toString(): one of the
\* 2^53 - 1 decimal strings from "0" to "9007199254740990"; the model draws
\* from the first MaxRandomIds of these samples (the least, the greatest,
\* the middle one and one more)
MaxRandomIds == 2

RandomIdSamples ==
  <<"0", "9007199254740990", "4503599627370495", "5710806144387547">>

RandomIds == {RandomIdSamples[i] : i \in 1..MaxRandomIds}

\* the arguments useLbState passes to lbStateInit
InitializerArgs(initialLoadout, e) ==
  [stores |-> Stores,
   initialLoadout |-> initialLoadout,
   customStatsByClass |-> e.customStatsByClass,
   loStatOrderByClass |-> e.loStatOrderByClass]

\* What LoadoutBuilderContainer returns: nothing when useInitialLoadout threw
\* (the error leaves the container before it looks at the stores), the
\* loading page while the stores are not loaded, the maintenance panel, or
\* LoadoutBuilder on the loadout resolved at this render.  useLbState builds
\* the editor state at the first render of LoadoutBuilder, where lbStateInit
\* may throw, and keeps it at the later ones, whatever loadout is passed.
LoadoutBuilderContainer(e, initialLoadout, editor) ==
  IF IsThrown(initialLoadout) THEN [page |-> "error", state |-> NoEditor]
  ELSE IF ~e.storesLoaded THEN [page |-> "loading", state |-> NoEditor]
  ELSE IF e.disabledDueToMaintenance THEN [page |-> "maintenance", state |-> NoEditor]
  ELSE IF editor # NoEditor THEN [page |-> "editor", state |-> editor]
  ELSE LET init == lbStateInit(InitializerArgs(initialLoadout, e))
       IN IF init.ok THEN [page |-> "editor", state |-> init.value]
          ELSE [page |-> "error", state |-> NoEditor]

\* the first render of the page at one of the locations
RenderAt(locations, envs) ==
  \E loc \in locations, e \in envs, randomId \in RandomIds :
    \E r \in {useInitialLoadout(loc, e, e.defsLoaded, randomId)} :
      \E shown \in {LoadoutBuilderContainer(e, r.loadout, NoEditor)} :
        /\ page = shown.page
        /\ state = shown.state /\ prev = shown.state /\ action = NoAction
        /\ notifications = r.notifications
        /\ location = loc /\ env = e
        /\ resolved = [loadout |-> r.loadout, storeId |-> r.storeId]
        /\ navigated = r.navigated /\ decoded = r.decoded

\* a new render of the page at location loc with the selectors returning e
RenderAgain(loc, e) ==
  /\ \E randomId \in RandomIds :
       \E r \in {useInitialLoadout(loc, e, e.defsLoaded, randomId)} :
         \E shown \in {LoadoutBuilderContainer(e, r.loadout, state)} :
           /\ page' = shown.page
           /\ state' = shown.state /\ prev' = shown.state
           /\ notifications' = r.notifications
           /\ resolved' = [loadout |-> r.loadout, storeId |-> r.storeId]
           /\ navigated' = r.navigated /\ decoded' = r.decoded
  /\ action' = NoAction
  /\ location' = loc /\ env' = e

\* dispatch(a), in LoadoutBuilder: the reducer runs at the next render of the
\* editor, and an error it throws there leaves nothing of the page
Dispatch(a) ==
  /\ page = "editor"
  /\ \E threw \in {ReducerThrows(env.defsLoaded, state, a)} :
       /\ page' = IF threw THEN "error" ELSE "editor"
       /\ state' = IF threw THEN NoEditor ELSE lbStateReducer(state, a)
       /\ notifications' = IF threw THEN <<>> ELSE reducerNotifications(state, a)
  /\ prev' = state
  /\ action' = a
  /\ UNCHANGED <<location, env, resolved, navigated, decoded>>

ChangeCharacter(storeIds) ==
  \E storeId \in storeIds : Dispatch([type |-> "changeCharacter", storeId |-> storeId])

PinItem(items) == \E item \in items : Dispatch([type |-> "pinItem", item |-> item])

SetPinnedItems(lists) == \E items \in lists : Dispatch([type |-> "setPinnedItems", items |-> items])

UnpinItem(items) == \E item \in items : Dispatch([type |-> "unpinItem", item |-> item])

ExcludeItem(items) == \E item \in items : Dispatch([type |-> "excludeItem", item |-> item])

UnexcludeItem(items) == \E item \in items : Dispatch([type |-> "unexcludeItem", item |-> item])

LockedModsChanged(lists) ==
  \E lockedMods \in lists :
    Dispatch([type |-> "lockedModsChanged", lockedMods |-> lockedMods])

AddGeneralMods(lists) ==
  \E mods \in lists : Dispatch([type |-> "addGeneralMods", mods |-> mods])

\* warnMissingClass(classType, defs) is called, as the page does for a loadout
\* whose class has no character; a call that throws shows nothing
WarnMissingClass(classTypes) ==
  \E classType \in classTypes :
    \E warned \in {warnMissingClass(classType)} :
      /\ warned.ok
      /\ notifications' = warned.value
      /\ action' = [type |-> "warnMissingClass", classType |-> classType]
      /\ prev' = state
      /\ UNCHANGED <<page, state, location, env, resolved, navigated, decoded>>

RemoveLockedMod(mods) ==
  \E mod \in mods : Dispatch([type |-> "removeLockedMod", mod |-> mod])

LockExotic(hashes) ==
  \E lockedExoticHash \in hashes :
    Dispatch([type |-> "lockExotic", lockedExoticHash |-> lockedExoticHash])

RemoveLockedExotic == Dispatch([type |-> "removeLockedExotic"])

StatFiltersChanged(filters) ==
  \E statFilters \in filters :
    Dispatch([type |-> "statFiltersChanged", statFilters |-> statFilters])

SortOrderChanged(orders) ==
  \E sortOrder \in orders : Dispatch([type |-> "sortOrderChanged", sortOrder |-> sortOrder])

AssumeArmorMasterworkChanged(values) ==
  \E assumeArmorMasterwork \in values :
    Dispatch([type |-> "assumeArmorMasterworkChanged",
              assumeArmorMasterwork |-> assumeArmorMasterwork])

LockArmorEnergyTypeChanged(values) ==
  \E lockArmorEnergyType \in values :
    Dispatch([type |-> "lockArmorEnergyTypeChanged",
              lockArmorEnergyType |-> lockArmorEnergyType])

UpdateSubclass(items) ==
  \E item \in items : Dispatch([type |-> "updateSubclass", item |-> item])

RemoveSubclass == Dispatch([type |-> "removeSubclass"])

UpdateSubclassSocketOverrides(overrides) ==
  \E socketOverrides \in overrides :
    Dispatch([type |-> "updateSubclassSocketOverrides", socketOverrides |-> socketOverrides])

RemoveSingleSubclassSocketOverride(plugs) ==
  \E plug \in plugs : Dispatch([type |-> "removeSingleSubclassSocketOverride", plug |-> plug])

OpenModPicker(whitelists) ==
  \E plugCategoryHashWhitelist \in whitelists :
    Dispatch([type |-> "openModPicker",
              plugCategoryHashWhitelist |-> plugCategoryHashWhitelist])

CloseModPicker == Dispatch([type |-> "closeModPicker"])

OpenCompareDrawer(sets) ==
  \E set \in sets : Dispatch([type |-> "openCompareDrawer", set |-> set])

CloseCompareDrawer == Dispatch([type |-> "closeCompareDrawer"])

\* navigate(pathname, { replace: true }) takes effect: the location loses its
\* query string and state and the container renders again.  After a render
\* that threw nothing of the page is left to render.
FollowNavigation ==
  /\ navigated # <<>>
  /\ page # "error"
  /\ RenderAgain([pathname |-> navigated[1].to, state |-> Undefined, search |-> EmptyObject],
                 env)

\* useLoadStores(account) turns true: the container renders again, where it
\* is, whether a navigate call of the latest render has taken effect or not
StoresLoaded ==
  /\ ~env.storesLoaded
  /\ RenderAgain(location, [env EXCEPT !.storesLoaded = TRUE])

----------------------------------------------------------------------------
(* Spec: pinning and excluding items, on the editor of a new loadout *)

MaxPinnedList == 2

Init == RenderAt({PlainLocation}, {DefaultEnv})

Next ==
  \/ ChangeCharacter(StoreIds)
  \/ PinItem(Items)
  \/ SetPinnedItems(SeqsUpTo(Items, MaxPinnedList))
  \/ UnpinItem(Items)
  \/ ExcludeItem(Items)
  \/ UnexcludeItem(Items)
  \/ WarnMissingClass({Titan, Warlock, Unknown})

Spec == Init /\ [][Next]_vars

----------------------------------------------------------------------------
(* Properties of pinning and excluding (Spec) *)

Pinned(s, bucketHash) == Get(s.pinnedItems, bucketHash)

Excluded(s, bucketHash) == Get(s.excludedItems, bucketHash)

\* the exclusion list of a bucket, empty when there is none
ExcludedList(s, bucketHash) == Coalesce(Excluded(s, bucketHash), <<>>)

ActionBucket == action.item.bucket.hash

\* C1: in every reachable state, no bucket has both a pinned item and a
\* non-empty list of excluded items.
C1_PinExcludeExclusive ==
  \A k \in BucketHashes :
    ~(Pinned(state, k) # Undefined /\ Len(ExcludedList(state, k)) > 0)

\* a pin was set on a bucket that had exclusions, while the other bucket
\* still has some
C1_Witness ==
  /\ action.type = "pinItem"
  /\ Len(ExcludedList(prev, ActionBucket)) > 0
  /\ Pinned(state, ActionBucket) # Undefined
  /\ \E k \in BucketHashes : Len(ExcludedList(state, k)) > 0

\* C2: after pinItem with item i of bucket k, pinnedItems[k] is i and
\* excludedItems[k] is absent, whatever the state before held for k.
C2_PinItemSetsPinClearsExcluded ==
  action.type = "pinItem" =>
    /\ Pinned(state, ActionBucket) = Some(action.item)
    /\ Excluded(state, ActionBucket) = Undefined

\* pinItem replaced another pinned item of the same bucket
C2_Witness ==
  /\ action.type = "pinItem"
  /\ Pinned(prev, ActionBucket) # Undefined
  /\ Pinned(prev, ActionBucket) # Some(action.item)
  /\ Pinned(state, ActionBucket) = Some(action.item)

\* C3: after excludeItem with an item i of bucket k whose id is not yet in
\* excludedItems[k], pinnedItems[k] is absent and excludedItems[k] is the
\* previous list (the empty list if there was none) with i appended last.
C3_ExcludeItemAppends ==
  (/\ action.type = "excludeItem"
   /\ \A n \in DOMAIN ExcludedList(prev, ActionBucket) :
        ExcludedList(prev, ActionBucket)[n].id # action.item.id)
  => /\ Pinned(state, ActionBucket) = Undefined
     /\ Excluded(state, ActionBucket) = Some(ExcludedList(prev, ActionBucket) \o <<action.item>>)

\* excludeItem appended to a non-empty list
C3_Witness ==
  /\ action.type = "excludeItem"
  /\ Len(ExcludedList(prev, ActionBucket)) > 0
  /\ Len(ExcludedList(state, ActionBucket)) = Len(ExcludedList(prev, ActionBucket)) + 1

NoDuplicateIds(list) ==
  \A m, n \in DOMAIN list : list[m].id = list[n].id => m = n

\* C4: excludeItem with an item whose id is already in the exclusion list of
\* its bucket returns the state unchanged, and no exclusion list of a
\* reachable state has two entries with the same item id.
C4_ExcludeItemIdempotent ==
  /\ (/\ action.type = "excludeItem"
      /\ \E n \in DOMAIN ExcludedList(prev, ActionBucket) :
           ExcludedList(prev, ActionBucket)[n].id = action.item.id)
     => state = prev
  /\ \A k \in BucketHashes : NoDuplicateIds(ExcludedList(state, k))

\* excludeItem was dispatched with another object of an item already excluded
C4_Witness ==
  /\ action.type = "excludeItem"
  /\ \E n \in DOMAIN ExcludedList(prev, ActionBucket) :
       /\ ExcludedList(prev, ActionBucket)[n].id = action.item.id
       /\ ExcludedList(prev, ActionBucket)[n] # action.item
  /\ state = prev

\* the list without the entries carrying the id of the given item
WithoutId(list, item) == FilterIdx(list, {n \in DOMAIN list : list[n].id # item.id}, 1)

\* C5: unexcludeItem removes the item with the given id from the exclusion
\* list of its bucket; when nothing remains the entry is absent, not an empty
\* list; no bucket of a reachable state maps to an empty list.
C5_UnexcludeItemRemoves ==
  /\ action.type = "unexcludeItem" =>
       LET rest == WithoutId(ExcludedList(prev, ActionBucket), action.item)
       IN Excluded(state, ActionBucket) = IF rest = <<>> THEN Undefined ELSE Some(rest)
  /\ \A k \in DOMAIN state.excludedItems : state.excludedItems[k] # Some(<<>>)

\* unexcludeItem removed the last item of a list
C5_Witness ==
  /\ action.type = "unexcludeItem"
  /\ Len(ExcludedList(prev, ActionBucket)) = 1
  /\ ExcludedList(prev, ActionBucket)[1].id = action.item.id
  /\ Excluded(state, ActionBucket) = Undefined

\* C8: changeCharacter sets selectedStoreId to the given store id and leaves
\* pinnedItems and excludedItems without any pin or exclusion list.
C8_ChangeCharacterClears ==
  action.type = "changeCharacter" =>
    /\ state.selectedStoreId = Some(action.storeId)
    /\ \A k \in BucketHashes : Pinned(state, k) = Undefined /\ Excluded(state, k) = Undefined

\* changeCharacter was dispatched on a state with a pin and an exclusion list
C8_Witness ==
  /\ action.type = "changeCharacter"
  /\ \E k \in BucketHashes : Pinned(prev, k) # Undefined
  /\ \E k \in BucketHashes : Len(ExcludedList(prev, k)) > 0
  /\ prev.selectedStoreId # state.selectedStoreId

----------------------------------------------------------------------------
(* SpecMods: locking mods and an exotic, on the editor of a loadout that    *)
(* arrived through the navigation state or was built from the defaults      *)
(* (a loadout without statConstraints mounts no editor: lbStateInit throws) *)

MaxModsLen == 6

\* a list of n general mods
GeneralModsRun(n) == [i \in 1..n |-> GeneralMod]

\* "given 7 general mods"
SevenGeneralMods ==
  <<GeneralMod, MobilityMod, GeneralMod, MobilityMod, GeneralMod, MobilityMod, GeneralMod>>

\* loadouts handed over in the navigation state: without parameters, with
\* parameters that have no mod list, and with a mod the manifest lost
PriorLoadouts ==
  { Loadout("prior", "Raid build", Titan, <<>>, parameters, Undefined) :
      parameters \in { Undefined,
                       Some(EmptyObject),
                       Some([mods |-> Some(<<RetiredModHash>>)]) } }

\* loadouts the optimizer saved before, with statConstraints in their
\* parameters: one without a mod list, one with a mod the manifest lost
OptimizedLoadouts ==
  { Loadout("prior", "Raid build", Titan, <<>>, Some(parameters), Undefined) :
      parameters \in { [statConstraints |-> defaultLoadoutParameters.statConstraints],
                       [statConstraints |-> defaultLoadoutParameters.statConstraints,
                        mods |-> Some(<<RetiredModHash>>)] } }

NavState(loadout, storeId) == Some([loadout |-> Some(loadout), storeId |-> storeId])

ModsLocations ==
  {PlainLocation} \cup {Location(NavState(l, Undefined), EmptyObject) : l \in OptimizedLoadouts}

InitMods == RenderAt(ModsLocations, {DefaultEnv})

\* addGeneralMods is given general mods here, so that the cap of the reducer
\* bounds the list
NextMods ==
  \/ LockedModsChanged({<<>>, <<HelmetMod, GeneralMod>>, GeneralModsRun(MaxModsLen)})
  \/ AddGeneralMods({<<>>, <<GeneralMod>>, <<GeneralMod, MobilityMod>>, SevenGeneralMods})
  \/ RemoveLockedMod(ModDefs)
  \/ LockExotic({ExoticHelmet.hash})
  \/ RemoveLockedExotic

SpecMods == InitMods /\ [][NextMods]_vars

----------------------------------------------------------------------------
(* Properties of the mod list (SpecMods) *)

Max(m, n) == IF m >= n THEN m ELSE n

Min(m, n) == IF m <= n THEN m ELSE n

GeneralBefore == GeneralModsCount(CurrentMods(prev))

GeneralAfter == GeneralModsCount(CurrentMods(state))

\* the number of submitted mods addGeneralMods has room for
Accepted == Min(Len(action.mods), Max(0, GeneralModsCap - GeneralBefore))

\* the display names of the submitted mods after the accepted ones
RejectedNames ==
  [i \in 1..(Len(action.mods) - Accepted) |-> action.mods[Accepted + i].displayProperties.name]

\* C6 as stated: after addGeneralMods the mod list never holds more than 5
\* general mods, whatever actions came before.
C6_Original ==
  action.type = "addGeneralMods" => GeneralAfter <= GeneralModsCap

\* C6 (amended): addGeneralMods never raises the number of general mods above
\* 5: after it the mod list holds at most 5 general mods, or, if it held more
\* than 5 before, no more than it held before.
C6_AddGeneralModsKeepsCap ==
  action.type = "addGeneralMods" => GeneralAfter <= Max(GeneralModsCap, GeneralBefore)

\* addGeneralMods filled the list up to the cap and refused the rest
C6_Witness ==
  /\ action.type = "addGeneralMods"
  /\ GeneralBefore < GeneralModsCap
  /\ GeneralAfter = GeneralModsCap
  /\ Len(notifications) > 0

\* C7: with g general mods in the list and n mods submitted, addGeneralMods
\* appends the hashes of the first min(n, max(0, 5 - g)) submitted mods to the
\* end of the list in submission order, and emits one warning naming the
\* remaining mods in submission order if and only if there are any.
C7_AddGeneralModsPartialSuccess ==
  action.type = "addGeneralMods" =>
    /\ CurrentMods(state) = CurrentMods(prev) \o [i \in 1..Accepted |-> action.mods[i].hash]
    /\ IF Accepted < Len(action.mods)
       THEN /\ Len(notifications) = 1
            /\ notifications[1].type = "warning"
            /\ notifications[1].body.mods = Join(RejectedNames)
       ELSE notifications = <<>>

\* 7 mods submitted with 3 general mods in the list: 2 accepted, 5 reported
C7_Witness ==
  /\ action.type = "addGeneralMods"
  /\ GeneralBefore = 3
  /\ Len(action.mods) = 7
  /\ Len(CurrentMods(state)) = Len(CurrentMods(prev)) + 2
  /\ Len(RejectedNames) = 5
  /\ Len(notifications) = 1

\* the action is removeLockedMod with a mod that is not in the mod list
RemovedAbsentMod ==
  /\ action.type = "removeLockedMod"
  /\ \A i \in DOMAIN CurrentMods(prev) : CurrentMods(prev)[i] # action.mod.hash

\* the loadout has parameters with a mod list
HasModList(s) ==
  /\ s.loadout.parameters # Undefined
  /\ Get(Val(s.loadout.parameters), "mods") # Undefined

\* C9 as stated: removeLockedMod with a mod that is not in the mod list leaves
\* every field of the state as it was, also when the loadout had no
\* parameters or no mod list.
C9_Original == RemovedAbsentMod => state = prev

\* C9 (amended): removeLockedMod with a mod that is not in the mod list leaves
\* every field of the state as it was when the loadout has a mod list; when
\* the parameters or the mod list were absent, the only change is that the
\* parameters now exist and hold an empty mod list.
C9_RemoveAbsentMod ==
  RemovedAbsentMod =>
    IF HasModList(prev) THEN state = prev
    ELSE /\ state.loadout.parameters =
              Some(Put(Coalesce(prev.loadout.parameters, EmptyObject), "mods", Some(<<>>)))
         /\ [state EXCEPT !.loadout = [@ EXCEPT !.parameters = prev.loadout.parameters]] = prev

\* removeLockedMod was dispatched on a loadout whose parameters had no mod
\* list, and now hold an empty one next to what they held
C9_Witness ==
  /\ RemovedAbsentMod
  /\ prev.loadout.parameters # Undefined
  /\ "mods" \notin DOMAIN Val(prev.loadout.parameters)
  /\ Get(Val(state.loadout.parameters), "mods") = Some(<<>>)
  /\ Get(Val(state.loadout.parameters), "statConstraints")
       = Get(Val(prev.loadout.parameters), "statConstraints")

----------------------------------------------------------------------------
(* SpecResolve: the page opened at any of a range of locations, with the    *)
(* stores loaded or not; a navigate call of the resolver and the arrival of *)
(* the stores are each followed by a new render                             *)

\* new URLSearchParams(search): a key is there only when it has a value
Search(l, class, p, s, n) ==
  LET all == [l |-> l, class |-> class, p |-> p, s |-> s, n |-> n]
  IN [k \in {key \in DOMAIN all : all[key] # Undefined} |-> all[k]]

\* values of the query parameter p: well-formed, with an exotic the manifest
\* does not have, with stat tiers and a query at and over the length limit,
\* with statConstraints that are no list (alone, and next to a query over the
\* length limit), and no JSON at all
ParametersTexts ==
  {ParametersJSONExotic, ParametersJSONNoSuchExotic, ParametersJSONMods,
   ParametersJSONQuery(MaxQueryLength),
   ParametersJSONQuery(MaxQueryLength + 1), ParametersJSONNotAList,
   ParametersJSONZero, ParametersJSONLongQueryNotAList, JSONBad}

Searches ==
  { Search(l, class, p, s, n) :
      l \in {Undefined, Some(""), Some(ShareLinkGood), Some(ShareLinkBad)},
      class \in {Undefined, Some(""), Some("0"), Some("3"), Some("7"), Some("warlock")},
      p \in {Undefined} \cup {Some(text) : text \in ParametersTexts},
      s \in {Undefined, Some(SubclassJSONGood), Some(JSONBad)},
      n \in {Undefined, Some("for the raid")} }

\* a loadout with an exotic helmet equipped, and the same one with an exotic
\* already locked
LoadoutWithExotic ==
  Loadout("worn", "Equipped", Titan,
          <<LoadoutItem("i1", LegendaryHelmet.hash, FALSE), LoadoutItem("i2", ExoticHelmet.hash, TRUE)>>,
          Undefined, Some("as worn"))

LoadoutWithLockedExotic ==
  [LoadoutWithExotic EXCEPT !.parameters = Some([exoticArmorHash |-> Some(ExoticGauntlets.hash)])]

\* a malformed navigation state: the loadout an older history entry holds,
\* which has no items
LoadoutWithoutItems ==
  [id |-> "prior", name |-> "Raid build", classType |-> Titan,
   parameters |-> Undefined, notes |-> Undefined]

\* a loadout whose equipped exotic helmet comes after an exotic that is not
\* equipped and an equipped exotic weapon, and before equipped exotic
\* gauntlets; its parameters hold a setting that sanitizing would strip
LoadoutWithExotics ==
  Loadout("worn", "Equipped", Titan,
          <<LoadoutItem("i1", ExoticGauntlets.hash, FALSE), LoadoutItem("i2", ExoticSword.hash, TRUE),
            LoadoutItem("i3", ExoticHelmet.hash, TRUE), LoadoutItem("i4", ExoticGauntlets.hash, TRUE)>>,
          Some([assumeArmorMasterwork |-> Some(3)]), Undefined)

\* no item to lock: the exotic armor is not equipped, the equipped exotic is
\* a weapon, and one item is not in the manifest
LoadoutWithoutLockable ==
  [LoadoutWithExotics EXCEPT
     !.items = <<LoadoutItem("i1", ExoticGauntlets.hash, FALSE),
                 LoadoutItem("i2", ExoticSword.hash, TRUE),
                 LoadoutItem("i3", RetiredModHash, TRUE)>>]

\* the exotic parameter set to 0, and to the "no exotic" choice
LoadoutWithExoticZero ==
  [LoadoutWithExotics EXCEPT !.parameters = Some([exoticArmorHash |-> Some(0)])]

LoadoutWithNoExoticChoice ==
  [LoadoutWithExotics EXCEPT !.parameters = Some([exoticArmorHash |-> Some(NoExoticChoice)])]

\* what the navigation state may hold: nothing, a state without a loadout,
\* a loadout with or without the character it was opened from, or a
\* malformed loadout
NavStates ==
  {Undefined, Some([loadout |-> Undefined, storeId |-> Undefined]),
   NavState(LoadoutWithoutItems, Undefined)}
    \cup { NavState(loadout, storeId) :
             loadout \in PriorLoadouts \cup {LoadoutWithExotic, LoadoutWithLockedExotic},
             storeId \in {Undefined, Some("titan")} }
    \cup { NavState(loadout, Undefined) :
             loadout \in OptimizedLoadouts
                          \cup {LoadoutWithExotics, LoadoutWithoutLockable,
                                LoadoutWithExoticZero, LoadoutWithNoExoticChoice} }

\* the query strings met together with a loadout in the navigation state
SearchesWithLoadout ==
  { Search(l, class, p, s, Undefined) :
      l \in {Undefined, Some(""), Some(ShareLinkGood), Some(ShareLinkBad)},
      class \in {Undefined, Some("warlock")},
      p \in {Undefined, Some(ParametersJSONExotic), Some(JSONBad)},
      s \in {Undefined, Some(JSONBad)} }

\* every query string where the navigation state holds no loadout
Locations ==
  { Location(navState, search) :
      navState \in {ns \in NavStates : ns = Undefined \/ Val(ns).loadout = Undefined},
      search \in Searches }
    \cup { Location(navState, search) :
             navState \in {ns \in NavStates : ns # Undefined /\ Val(ns).loadout # Undefined},
             search \in SearchesWithLoadout }

\* the parameters saved in the settings: the defaults, or the user's own
SavedLoadoutParameters ==
  {defaultLoadoutParameters,
   [defaultLoadoutParameters EXCEPT !.mods = Some(<<GeneralMod.hash>>),
                                    !.assumeArmorMasterwork = Some(3)]}

\* the page is opened with the stores loaded or still loading; maintenance
\* is met with the default settings
Envs ==
  { Env(Some(saved), defsLoaded, storesLoaded, FALSE) :
      saved \in SavedLoadoutParameters, defsLoaded \in BOOLEAN, storesLoaded \in BOOLEAN }
    \cup { Env(Some(defaultLoadoutParameters), TRUE, storesLoaded, TRUE) :
             storesLoaded \in BOOLEAN }

InitResolve == RenderAt(Locations, Envs)

NextResolve ==
  \/ FollowNavigation
  \/ StoresLoaded

SpecResolve == InitResolve /\ [][NextResolve]_vars

----------------------------------------------------------------------------
(* Properties of the resolver (SpecResolve) *)

\* the loadout the navigation state carries
PriorLoadout == Val(Val(location.state).loadout)

\* the query string has a non-empty value for the key
HasQuery(key) == Truthy(Get(location.search, key))

\* the parameters without the key exoticArmorHash
WithoutExotic(parameters) ==
  LET params == Coalesce(parameters, EmptyObject)
  IN [k \in DOMAIN params \ {"exoticArmorHash"} |-> params[k]]

\* C10: when the navigation state carries a loadout (a value with the fields
\* of a Loadout), that loadout is the one
\* returned (identical but for the exotic the resolver may lock on it, and
\* identical outright when it has no equipped item), together with the store
\* id of the navigation state, whatever the query string holds; the share
\* link is not decoded, nothing is notified and navigate is not called.
C10_PriorLoadoutWins ==
  (HasPreloadedLoadout(location) /\ IsConfiguration(PriorLoadout)) =>
    /\ [resolved.loadout EXCEPT !.parameters = Undefined]
         = [PriorLoadout EXCEPT !.parameters = Undefined]
    /\ WithoutExotic(resolved.loadout.parameters) = WithoutExotic(PriorLoadout.parameters)
    /\ PriorLoadout.items = <<>> => resolved.loadout = PriorLoadout
    /\ resolved.storeId = Val(location.state).storeId
    /\ decoded = <<>>
    /\ notifications = <<>>
    /\ navigated = <<>>

\* the page was opened from a loadout while the query string also had a
\* share link and discrete parameters
C10_Witness ==
  /\ HasPreloadedLoadout(location)
  /\ Get(location.search, "l") = Some(ShareLinkGood)
  /\ HasQuery("p")
  /\ HasQuery("class")
  /\ resolved.loadout = PriorLoadout

\* the loadout was built from the discrete query parameters (tier 3)
FromQueryParameters ==
  ~HasPreloadedLoadout(location) /\ Get(location.search, "l") # Some(ShareLinkGood)

\* the query parameter p is there and is JSON
DecodedParameters == HasQuery("p") /\ JSONParse(Val(Get(location.search, "p"))).ok

\* the object the query parameter p decodes to
UrlParameters == JSONParse(Val(Get(location.search, "p"))).value

\* the statConstraints of the decoded object are a list, or absent
UrlStatConstraintsAreList ==
  \/ Get(UrlParameters, "statConstraints") = Undefined
  \/ Iterable(Val(Get(UrlParameters, "statConstraints")))

ResolvedParameters == Val(resolved.loadout.parameters)

\* C11: every parameters object decoded from the query string resolves to
\* parameters whose query is empty when the decoded query is longer than 2048
\* characters and the decoded query otherwise, and whose statConstraints
\* have, position by position, the identifiers of the entries of the decoded
\* list and neither minTier nor maxTier.
C11_SanitizedQueryAndTiers ==
  (FromQueryParameters /\ DecodedParameters) =>
    /\ resolved.loadout.parameters # Undefined
    /\ Get(UrlParameters, "query") # Undefined =>
         Get(ResolvedParameters, "query") =
           IF Len(Val(Get(UrlParameters, "query"))) > MaxQueryLength
           THEN Some("") ELSE Get(UrlParameters, "query")
    /\ (Get(UrlParameters, "statConstraints") # Undefined /\ UrlStatConstraintsAreList) =>
         LET given == Val(Get(UrlParameters, "statConstraints"))
             kept == Val(Get(ResolvedParameters, "statConstraints"))
         IN /\ Len(kept) = Len(given)
            /\ \A i \in DOMAIN given :
                 /\ kept[i].statHash = given[i].statHash
                 /\ DOMAIN kept[i] \cap {"minTier", "maxTier"} = {}

\* C12: for every object the query parameter p decodes to, whatever the shape
\* of its fields, sanitizing does not fail (nothing is notified for p) and the
\* resolved parameters have neither assumeArmorMasterwork nor
\* lockArmorEnergyType, and no stat constraint of theirs has a minTier or a
\* maxTier.
C12_SanitizationNeverFails ==
  (FromQueryParameters /\ DecodedParameters) =>
    /\ resolved.loadout.parameters # Undefined
    /\ DOMAIN ResolvedParameters \cap {"assumeArmorMasterwork", "lockArmorEnergyType"} = {}
    /\ \A i \in DOMAIN notifications :
         notifications[i].body.error # "draft.statConstraints is not iterable"
    /\ LET kept == Coalesce(Get(ResolvedParameters, "statConstraints"), <<>>)
       IN Iterable(kept) =>
            \A i \in DOMAIN kept : DOMAIN kept[i] \cap {"minTier", "maxTier"} = {}

\* the share link of the location did not decode
LinkFailed ==
  ~HasPreloadedLoadout(location) /\ Get(location.search, "l") = Some(ShareLinkBad)

\* what the resolver returns at the location without the query parameter key
\* when it draws randomId
ResolvedWithout(key, randomId) ==
  useInitialLoadout([location EXCEPT !.search = Delete(@, key)], env, env.defsLoaded, randomId)

\* C13: with no loadout in the navigation state and a share link that fails
\* to decode, the resolver returns the loadout it builds from class, p, s and
\* n (or the defaults) when there is no share link, and emits one error
\* notification for the share link, before those, if any, of p and s.
C13_LinkFailureFallsThrough ==
  LinkFailed =>
    /\ \E randomId \in RandomIds : resolved.loadout = ResolvedWithout("l", randomId).loadout
    /\ resolved.loadout.id = "new"
    /\ Len(notifications) = 1 + Len(ResolvedWithout("l", RandomIdSamples[1]).notifications)
    /\ notifications[1].type = "error"
    /\ notifications[1].body.error = parseLoadoutFromURLParam(ShareLinkBad).message
    /\ SubSeq(notifications, 2, Len(notifications)) = ResolvedWithout("l", RandomIdSamples[1]).notifications

\* the share link failed while class, p, s and n were all there and well
\* formed: the loadout has their values and one error was notified
C13_Witness ==
  /\ LinkFailed
  /\ Get(location.search, "class") = Some("0")
  /\ Get(location.search, "p") = Some(ParametersJSONMods)
  /\ Get(location.search, "s") = Some(SubclassJSONGood)
  /\ HasQuery("n")
  /\ resolved.loadout.classType = Titan
  /\ Len(resolved.loadout.items) = 1
  /\ resolved.loadout.notes = Get(location.search, "n")
  /\ Get(ResolvedParameters, "mods") = Some(<<GeneralMod.hash>>)
  /\ Len(notifications) = 1

\* the resolver returned a loadout: it did not throw
Returned == ~IsThrown(resolved.loadout)

\* C14 as stated: the loadout the resolver returns has parameters, whichever
\* tier it comes from.
C14_Original == Returned => resolved.loadout.parameters # Undefined

\* C14 (amended): a loadout returned from the share link, from the discrete
\* query parameters or from the saved parameters has parameters; a loadout
\* taken from the navigation state has parameters if it had them before, and
\* if it had none it either still has none or has just the exotic the
\* resolver locked on it.
C14_ParametersPresence ==
  /\ ~HasPreloadedLoadout(location) => resolved.loadout.parameters # Undefined
  /\ (HasPreloadedLoadout(location) /\ Returned) =>
       IF PriorLoadout.parameters # Undefined
       THEN resolved.loadout.parameters # Undefined
       ELSE \/ resolved.loadout.parameters = Undefined
            \/ /\ DOMAIN ResolvedParameters = {"exoticArmorHash"}
               /\ ResolvedParameters.exoticArmorHash # Undefined

\* a loadout without parameters came through the navigation state and left
\* the resolver without parameters
C14_Witness ==
  /\ HasPreloadedLoadout(location)
  /\ PriorLoadout.parameters = Undefined
  /\ resolved.loadout = PriorLoadout
  /\ resolved.loadout.parameters = Undefined

\* the location the browser is at once the navigate calls of the resolver
\* have taken effect
ResultingLocation ==
  IF navigated = <<>> THEN location
  ELSE [pathname |-> navigated[1].to, state |-> Undefined, search |-> EmptyObject]

\* C15: whenever the resolver has notified a decode failure (of l, s or p),
\* it has called navigate to strip the query parameter, and resolving again
\* at the resulting location notifies nothing.
C15_DecodeFailureStripsParameter ==
  (\E i \in DOMAIN notifications : notifications[i].type = "error") =>
    /\ navigated # <<>>
    /\ useInitialLoadout(ResultingLocation, env, env.defsLoaded,
                         RandomIdSamples[1]).notifications = <<>>


----------------------------------------------------------------------------
(* SpecPanels and SpecParams: the editor of the page opened from the query  *)
(* string or from a loadout of the navigation state, with the default or    *)
(* the user's saved parameters, with or without the manifest, the stores    *)
(* loaded or arriving later.  SpecPanels dispatches the actions on the stat *)
(* order and filters, the subclass, the mod picker and the compare drawer;  *)
(* SpecParams the actions that patch the loadout's parameters.              *)

\* every query parameter present and malformed
MalformedLocation ==
  Location(Undefined,
           Search(Some(ShareLinkBad), Some("warlock"), Some(JSONBad), Some(JSONBad), Undefined))

\* a subclass in the query parameter s and nothing else
SubclassLocation ==
  Location(Undefined,
           Search(Undefined, Undefined, Undefined, Some(SubclassJSONGood), Undefined))

\* a class and parameters in the query string
ClassAndModsLocation ==
  Location(Undefined,
           Search(Undefined, Some("warlock"), Some(ParametersJSONMods), Undefined, Undefined))

PanelLocations ==
  {PlainLocation, MalformedLocation, SubclassLocation, ClassAndModsLocation}
    \cup {Location(NavState(l, Undefined), EmptyObject) : l \in OptimizedLoadouts}

\* the settings an editor is mounted with
EditEnvs ==
  { Env(Some(saved), defsLoaded, storesLoaded, FALSE) :
      saved \in SavedLoadoutParameters, defsLoaded \in BOOLEAN, storesLoaded \in BOOLEAN }

NarrowStatFilters == [stat \in ArmorStatSet |-> [ignored |-> FALSE, min |-> 2, max |-> 8]]

ArmorSet(items) == [armor |-> items]

InitPanels == RenderAt(PanelLocations, EditEnvs)

NextPanels ==
  \/ FollowNavigation
  \/ StoresLoaded
  \/ StatFiltersChanged({NarrowStatFilters})
  \/ SortOrderChanged({<<"Recovery", "Mobility", "Resilience">>})
  \/ UpdateSubclass({Item("h1", Helmet, 1)})
  \/ RemoveSubclass
  \/ UpdateSubclassSocketOverrides({EmptyObject})
  \/ RemoveSingleSubclassSocketOverride({GeneralMod})
  \/ OpenModPicker({Undefined, Some(<<Val(GeneralMod.plug).plugCategoryHash>>)})
  \/ CloseModPicker
  \/ OpenCompareDrawer({ArmorSet(<<Item("h1", Helmet, 1)>>)})
  \/ CloseCompareDrawer

SpecPanels == InitPanels /\ [][NextPanels]_vars

\* an exotic in the query string
ExoticLocation ==
  Location(Undefined,
           Search(Undefined, Undefined, Some(ParametersJSONExotic), Undefined, Undefined))

ParamLocations ==
  {PlainLocation, ExoticLocation}
    \cup {Location(NavState(l, Undefined), EmptyObject) : l \in OptimizedLoadouts}

InitParams == RenderAt(ParamLocations, EditEnvs)

NextParams ==
  \/ StoresLoaded
  \/ LockedModsChanged({<<HelmetMod, GeneralMod>>})
  \/ AddGeneralMods({<<GeneralMod>>})
  \/ RemoveLockedMod({GeneralMod})
  \/ LockExotic({ExoticHelmet.hash})
  \/ RemoveLockedExotic
  \/ AssumeArmorMasterworkChanged({Undefined, Some(3)})
  \/ LockArmorEnergyTypeChanged({Undefined, Some(2)})

SpecParams == InitParams /\ [][NextParams]_vars

ActionTypes ==
  {"changeCharacter", "statFiltersChanged", "sortOrderChanged",
   "assumeArmorMasterworkChanged", "lockArmorEnergyTypeChanged", "pinItem",
   "setPinnedItems", "unpinItem", "excludeItem", "unexcludeItem", "lockedModsChanged",
   "removeLockedMod", "addGeneralMods", "updateSubclass", "removeSubclass",
   "updateSubclassSocketOverrides", "removeSingleSubclassSocketOverride", "lockExotic",
   "removeLockedExotic", "openModPicker", "closeModPicker", "openCompareDrawer",
   "closeCompareDrawer"}

IsEditorState(s) ==
  /\ DOMAIN s = {"loadout", "statOrder", "pinnedItems", "excludedItems", "statFilters",
                 "selectedStoreId", "modPicker", "compareSet"}
  /\ IsConfiguration(s.loadout)
  /\ DOMAIN s.statFilters = ArmorStatSet
  /\ s.modPicker.open \in BOOLEAN

\* the query parameters whose decoding fails on the path the resolver takes
FailedInputs ==
  LET text(key) == Val(Get(location.search, key))
      fails(key) ==
        CASE key = "l" -> ~parseLoadoutFromURLParam(text(key)).ok
          [] key = "s" -> ~JSONParse(text(key)).ok
          [] key = "p" ->
               \/ ~JSONParse(text(key)).ok
               \/ ~sanitizeLoadoutParameters(
                      Spread(defaultLoadoutParameters, JSONParse(text(key)).value)).ok
  IN IF HasPreloadedLoadout(location) THEN {}
     ELSE IF HasQuery("l") /\ ~fails("l") THEN {}
     ELSE {key \in {"l", "s", "p"} : HasQuery(key) /\ fails(key)}

\* C16: no failure aborts the caller.  For every combination of navigation
\* state and query parameters l, class, p, s and n, present or absent, well
\* formed or malformed, the resolver returns a loadout, and each input that
\* fails to decode shows as exactly one error notification; and every action
\* variant takes the editor state to an editor state.
C16_NoFailureAborts ==
  /\ IsConfiguration(resolved.loadout)
  /\ action = NoAction =>
       /\ Len(notifications) = Cardinality(FailedInputs)
       /\ \A i \in DOMAIN notifications : notifications[i].type = "error"
  /\ action # NoAction =>
       /\ action.type \in ActionTypes
       /\ IsEditorState(prev)
       /\ IsEditorState(state)

\* the share link is the tier that resolves, and it decodes
LinkDecoded ==
  /\ ~HasPreloadedLoadout(location)
  /\ HasQuery("l")
  /\ parseLoadoutFromURLParam(Val(Get(location.search, "l"))).ok

\* C17: with no loadout in the navigation state and a share link that
\* decodes, the resolver returns the decoded loadout as it is, whatever class,
\* p, s, n and the saved parameters are, emits no notification and does not
\* rewrite the location.
C17_DecodedLinkReturned ==
  LinkDecoded =>
    /\ resolved.loadout = parseLoadoutFromURLParam(Val(Get(location.search, "l"))).value
    /\ resolved.storeId = Undefined
    /\ notifications = <<>>
    /\ navigated = <<>>

\* a share link that decodes, next to a class, parameters that fail to
\* decode, a subclass that fails to decode, notes and the user's own saved
\* parameters
C17_Witness ==
  /\ LinkDecoded
  /\ location.search =
       Search(Some(ShareLinkGood), Some("0"), Some(JSONBad), Some(JSONBad), Some("for the raid"))
  /\ env.savedLoadoutParameters # Some(defaultLoadoutParameters)
  /\ resolved.loadout = SharedLoadout
  /\ SharedLoadout.classType # 0
  /\ decoded = <<ShareLinkGood>>

\* the defaults overridden field by field by the object p decodes to, sanitized
SanitizedUrlParameters ==
  sanitizeLoadoutParameters(Spread(defaultLoadoutParameters, UrlParameters))

\* C18: in the tier of the discrete query parameters the resolved parameters
\* are the saved parameters, unchanged, when p is absent or fails to decode
\* (one error notification being emitted for it), and, when p decodes, the
\* default parameters overridden field by field by the decoded object and
\* then sanitized.
C18_ResolvedParameters ==
  FromQueryParameters =>
    IF ~HasQuery("p")
    THEN resolved.loadout.parameters = env.savedLoadoutParameters /\ "p" \notin FailedInputs
    ELSE IF ~DecodedParameters
    THEN /\ resolved.loadout.parameters = env.savedLoadoutParameters
         /\ "p" \in FailedInputs
         /\ Len(notifications) = Cardinality(FailedInputs)
    ELSE /\ SanitizedUrlParameters.ok
         /\ resolved.loadout.parameters = Some(SanitizedUrlParameters.value)

\* the class given by the query parameter class
UrlClassHint == UrlClassType(location.search)

\* the locked exotic of the resolved parameters, if any
ResolvedExotic ==
  IF resolved.loadout.parameters = Undefined THEN Undefined
  ELSE Get(ResolvedParameters, "exoticArmorHash")

\* the manifest is loaded and has the locked exotic of the resolved parameters
ExoticResolvable ==
  /\ env.defsLoaded
  /\ ResolvedExotic # Undefined
  /\ Val(ResolvedExotic) > 0
  /\ InventoryItemGet(Val(ResolvedExotic)) # Undefined

\* C19: in the tier of the discrete query parameters the class of the
\* loadout is the class of the locked exotic exactly when the class parameter
\* gave no class (the hint is unknown) and the resolved parameters have a
\* locked exotic the manifest resolves; a class given in the URL is kept as
\* it is, and an exotic that does not resolve leaves the class unknown.
C19_ClassFromExotic ==
  FromQueryParameters =>
    /\ (UrlClassHint = Unknown /\ ExoticResolvable) =>
         resolved.loadout.classType = Val(InventoryItemGet(Val(ResolvedExotic))).classType
    /\ UrlClassHint # Unknown => resolved.loadout.classType = UrlClassHint
    /\ (UrlClassHint = Unknown /\ ~ExoticResolvable) => resolved.loadout.classType = Unknown

\* no class in the URL and a hunter exotic in p: the loadout is a hunter's
C19_Witness ==
  /\ FromQueryParameters
  /\ ~HasQuery("class")
  /\ Get(location.search, "p") = Some(ParametersJSONExotic)
  /\ ExoticResolvable
  /\ resolved.loadout.classType = Hunter

DestinyClasses == {Titan, Hunter, Warlock, Unknown}

\* C20: the class of every loadout built from the discrete query parameters
\* is one of the character classes or unknown, whatever the class parameter
\* is: absent, empty, not a number or a number that is no class.
C20_ClassHintIsAClass ==
  FromQueryParameters => resolved.loadout.classType \in DestinyClasses

\* the positions of the prior loadout's items that are equipped and are, by
\* the manifest, exotics of a lockable bucket
EquippedLockableExotics ==
  {i \in DOMAIN PriorLoadout.items :
     /\ PriorLoadout.items[i].equip
     /\ \E def \in InventoryItemDefs :
          /\ def.hash = PriorLoadout.items[i].hash
          /\ Val(def.equippingBlock).uniqueLabel # Undefined
          /\ Val(def.inventory).bucketTypeHash \in LockableBucketHashes}

FirstEquippedLockableExotic ==
  PriorLoadout.items[CHOOSE i \in EquippedLockableExotics :
                       \A j \in EquippedLockableExotics : i <= j].hash

\* the prior loadout with the exotic locked in its parameters, every other
\* field and parameter as before
PriorLoadoutLocking(hash) ==
  [PriorLoadout EXCEPT !.parameters =
     Some(Put(Coalesce(@, EmptyObject), "exoticArmorHash", Some(hash)))]

\* the prior loadout has no exoticArmorHash among its parameters
PriorLacksExotic ==
  \/ PriorLoadout.parameters = Undefined
  \/ Get(Val(PriorLoadout.parameters), "exoticArmorHash") = Undefined

\* C21 as stated: a loadout from the navigation state is returned as it is,
\* except that, when it has no exoticArmorHash and some equipped item is an
\* exotic of a lockable bucket, exoticArmorHash becomes the hash of the first
\* such item.
C21_Original ==
  (HasPreloadedLoadout(location) /\ IsConfiguration(PriorLoadout)) =>
    resolved.loadout =
      IF PriorLacksExotic /\ EquippedLockableExotics # {}
      THEN PriorLoadoutLocking(FirstEquippedLockableExotic)
      ELSE PriorLoadout

\* C21 (amended): the same, where the exotic is locked only when the manifest
\* is loaded, and an exoticArmorHash of 0 counts as none.
C21_PriorLoadoutAugmented ==
  (HasPreloadedLoadout(location) /\ IsConfiguration(PriorLoadout)) =>
    resolved.loadout =
      IF /\ env.defsLoaded
         /\ (PriorLacksExotic \/ Val(Get(Val(PriorLoadout.parameters), "exoticArmorHash")) = 0)
         /\ EquippedLockableExotics # {}
      THEN PriorLoadoutLocking(FirstEquippedLockableExotic)
      ELSE PriorLoadout

\* the helmet was locked: the exotic before it is not equipped, the equipped
\* one before it is a weapon, the gauntlets come after; the unsanitized
\* setting is still there
C21_Witness ==
  /\ HasPreloadedLoadout(location)
  /\ PriorLoadout = LoadoutWithExotics
  /\ env.defsLoaded
  /\ Get(ResolvedParameters, "exoticArmorHash") = Some(ExoticHelmet.hash)
  /\ Get(ResolvedParameters, "assumeArmorMasterwork") = Some(3)
  /\ resolved.loadout.items = LoadoutWithExotics.items

\* the positions of the removed mod in the mod list before the action
OccurrencesBefore == {i \in DOMAIN CurrentMods(prev) : CurrentMods(prev)[i] = action.mod.hash}

FirstOccurrenceBefore == CHOOSE i \in OccurrencesBefore : \A j \in OccurrencesBefore : i <= j

\* C22: removeLockedMod with a mod that is in the mod list removes one entry,
\* the first with the mod's hash: the list is one shorter, and the entries
\* before and after that position, later occurrences of the same hash among
\* them, are kept in their order.
C22_RemovesFirstOccurrence ==
  (action.type = "removeLockedMod" /\ OccurrencesBefore # {}) =>
    /\ Len(CurrentMods(state)) = Len(CurrentMods(prev)) - 1
    /\ CurrentMods(state) =
         SubSeq(CurrentMods(prev), 1, FirstOccurrenceBefore - 1)
           \o SubSeq(CurrentMods(prev), FirstOccurrenceBefore + 1, Len(CurrentMods(prev)))

\* the mod was in the list more than once, after another mod; its first
\* occurrence is gone and a later one is still there
C22_Witness ==
  /\ action.type = "removeLockedMod"
  /\ Cardinality(OccurrencesBefore) >= 2
  /\ FirstOccurrenceBefore > 1
  /\ \E i \in DOMAIN CurrentMods(state) :
       i >= FirstOccurrenceBefore /\ CurrentMods(state)[i] = action.mod.hash
  /\ \E i \in DOMAIN CurrentMods(state) : CurrentMods(state)[i] # action.mod.hash

\* the stat hashes of the statConstraints of the loadout's parameters, in
\* their order
ConstrainedStats ==
  LET constraints == StatConstraintsOf(Coalesce(state.loadout.parameters, EmptyObject))
  IN [i \in DOMAIN constraints |-> constraints[i].statHash]

\* C23: statOrder is in sync with the statConstraints of the loadout's
\* parameters: in every state, after any sequence of actions, the stats the
\* statConstraints list come in the same relative order in statOrder.
C23_StatOrderInSync ==
  page = "editor" =>
  \A i, j \in DOMAIN ConstrainedStats :
    i < j =>
      \E a, b \in DOMAIN state.statOrder :
        /\ a < b
        /\ state.statOrder[a] = ConstrainedStats[i]
        /\ state.statOrder[b] = ConstrainedStats[j]

\* C24: openModPicker leaves the mod picker open with the allow-list of the
\* action and no other (none when the action has none), closeModPicker leaves
\* it closed without an allow-list, and so a closed mod picker never has an
\* allow-list.
C24_ModPickerAllowList ==
  /\ action.type = "openModPicker" =>
       /\ state.modPicker.open
       /\ state.modPicker.plugCategoryHashWhitelist = action.plugCategoryHashWhitelist
  /\ action.type = "closeModPicker" =>
       /\ ~state.modPicker.open
       /\ state.modPicker.plugCategoryHashWhitelist = Undefined
  /\ (page = "editor" /\ ~state.modPicker.open) =>
       state.modPicker.plugCategoryHashWhitelist = Undefined

\* a mod picker that was open with an allow-list has been closed
C24_Witness ==
  /\ action.type = "closeModPicker"
  /\ prev.modPicker.open
  /\ prev.modPicker.plugCategoryHashWhitelist # Undefined
  /\ ~state.modPicker.open
  /\ state.modPicker.plugCategoryHashWhitelist = Undefined

\* the stores of the class of the loadout the editor was mounted with
StoresOfLoadoutClass == {i \in DOMAIN Stores : Stores[i].classType = state.loadout.classType}

\* C25: whenever the page comes to build the editor from the resolved
\* loadout, no error is raised and the editor state has no pinned and no
\* excluded items, a closed mod picker and no compare set; the selected store
\* is one of the class of the loadout when that class is not unknown and
\* there is such a store, and the current store otherwise.
C25_InitialEditorState ==
  (action = NoAction /\ env.storesLoaded /\ ~env.disabledDueToMaintenance) =>
    /\ page = "editor"
    /\ state.pinnedItems = EmptyObject
    /\ state.excludedItems = EmptyObject
    /\ state.modPicker = [open |-> FALSE, plugCategoryHashWhitelist |-> Undefined]
    /\ state.compareSet = Undefined
    /\ state.selectedStoreId # Undefined
    /\ IF state.loadout.classType # Unknown /\ StoresOfLoadoutClass # {}
       THEN \E i \in StoresOfLoadoutClass : state.selectedStoreId = Some(Stores[i].id)
       ELSE \E i \in DOMAIN Stores :
              Stores[i].current /\ state.selectedStoreId = Some(Stores[i].id)

SubclassActionTypes ==
  {"updateSubclass", "removeSubclass", "updateSubclassSocketOverrides",
   "removeSingleSubclassSocketOverride"}

\* C26: updateSubclass, removeSubclass, updateSubclassSocketOverrides and
\* removeSingleSubclassSocketOverride change nothing: the state after the
\* action equals the state before it in every field, the items of the
\* loadout included.
C26_SubclassActionsInert ==
  action.type \in SubclassActionTypes =>
    /\ state = prev
    /\ state.loadout.items = prev.loadout.items

\* removeSubclass on a loadout that has a subclass item, after the editor had
\* been changed by another action
C26_Witness ==
  /\ action.type = "removeSubclass"
  /\ location = SubclassLocation
  /\ Len(prev.loadout.items) = 1
  /\ prev.statFilters = NarrowStatFilters
  /\ prev.modPicker.open
  /\ state = prev

SlotActionTypes == {"pinItem", "unpinItem", "excludeItem", "unexcludeItem"}

\* the pin and the exclusion list of the bucket are as before the action
PinKept(bucketHash) == Get(state.pinnedItems, bucketHash) = Get(prev.pinnedItems, bucketHash)

ExcludedKept(bucketHash) ==
  Get(state.excludedItems, bucketHash) = Get(prev.excludedItems, bucketHash)

\* C27: pinItem, unpinItem, excludeItem and unexcludeItem with an item of
\* one bucket leave the pin and the exclusion list of every other bucket as
\* they were, and leave the loadout, statOrder, statFilters, selectedStoreId,
\* modPicker and compareSet as they were; unpinItem also leaves the exclusion
\* list of the item's bucket, and unexcludeItem the pin of the item's bucket.
C27_SlotActionsFrame ==
  action.type \in SlotActionTypes =>
    /\ \A bucketHash \in BucketHashes \ {action.item.bucket.hash} :
         PinKept(bucketHash) /\ ExcludedKept(bucketHash)
    /\ state.loadout = prev.loadout
    /\ state.statOrder = prev.statOrder
    /\ state.statFilters = prev.statFilters
    /\ state.selectedStoreId = prev.selectedStoreId
    /\ state.modPicker = prev.modPicker
    /\ state.compareSet = prev.compareSet
    /\ action.type = "unpinItem" => ExcludedKept(action.item.bucket.hash)
    /\ action.type = "unexcludeItem" => PinKept(action.item.bucket.hash)

\* unexcludeItem with a helmet while a helmet was pinned and the gauntlets
\* had an exclusion list: both are still there
C27_Witness ==
  /\ action.type = "unexcludeItem"
  /\ action.item.bucket.hash = Helmet
  /\ Get(prev.pinnedItems, Helmet) # Undefined
  /\ Get(state.pinnedItems, Helmet) = Get(prev.pinnedItems, Helmet)
  /\ Get(prev.excludedItems, Gauntlets) # Undefined
  /\ Get(state.excludedItems, Gauntlets) = Get(prev.excludedItems, Gauntlets)

\* the parameters field each parameter action writes
PatchedField ==
  [type \in {"lockedModsChanged", "addGeneralMods", "removeLockedMod"} |-> "mods"]
    @@ [type \in {"lockExotic", "removeLockedExotic"} |-> "exoticArmorHash"]
    @@ [type \in {"assumeArmorMasterworkChanged"} |-> "assumeArmorMasterwork"]
    @@ [type \in {"lockArmorEnergyTypeChanged"} |-> "lockArmorEnergyType"]

ParametersOf(s) == Coalesce(s.loadout.parameters, EmptyObject)

====
